---- MODULE Spec2Model ----
(***************************************************************************)
(* wwsvc-rs: the WEBSERVICES client session.                               *)
(*                                                                         *)
(* Two revisions of the client live in the repository and both are         *)
(* modelled:                                                               *)
(*   src/src/client.rs        the type-state client (Unregistered,         *)
(*                            Registered, OpenCursor); specification Spec  *)
(*   src/src/async_client.rs  the first async client (one struct, no       *)
(*                            type-state); specification SpecAsync         *)
(* Parts of the crate are also modelled on their own:                      *)
(*   SpecCursor     src/src/cursor.rs, the Cursor value                    *)
(*   SpecAppHash    src/src/app_hash.rs, AppHash::new over the u32 range   *)
(*   SpecGeneric    request_generic of client.rs and the wire body of      *)
(*                  src/src/requests.rs                                    *)
(*   SpecPaginator  src/src/cursor_response.rs, the paginator over the     *)
(*                  session shared behind an Arc                           *)
(*   SpecShared     the paginator and a second holder of the same session  *)
(*   SpecStream     the stream functions of client.rs and the client they  *)
(*                  return                                                 *)
(*   SpecConcurrent several paginators over clones of one Arc, next()      *)
(*                  running concurrently                                   *)
(* An async method is split at its await point: the step up to the network *)
(* call, and the step that handles the reply.  `&mut self` / `self`        *)
(* receivers give the running call exclusive access to the session, which  *)
(* is the guard `call = None` of every step that starts a call.            *)
(***************************************************************************)
EXTENDS Integers, Sequences, FiniteSets, TLC

(***************************************************************************)
(* Bounds of the model.                                                    *)
(***************************************************************************)
MaxRequestId == 3
MaxNetCalls == 3
MaxTime == 1
TicksPerSecond == 1
MaxPaginators == 2

(***************************************************************************)
(* Program constants.                                                      *)
(***************************************************************************)
DefaultResultMaxLines == 1000
AsyncResultMaxLines == 100000

(***************************************************************************)
(* Option<T>: None is the empty sequence, Some(x) a one-element sequence.  *)
(***************************************************************************)
None == <<>>
Some(x) == <<x>>
IsSome(o) == Len(o) = 1
IsNone(o) == Len(o) = 0
Unwrap(o) == o[1]

\* The tasks of the host application that use the session.
Tasks == {1, 2}

(***************************************************************************)
(* Inputs.                                                                 *)
(***************************************************************************)
\* A path segment on which Url::join fails (a scheme-relative reference
\* with an unterminated IPv6 host).
BadSegment == "//["
JoinFails(segment) == segment = BadSegment

\* PASSID / APPID values a server may issue.
PassIds == {"p1", BadSegment}
AppIds == {"a1"}

\* Credentials handed to the builder.
BuilderCredentials == {None, Some([service_pass |-> "p0", app_id |-> "a0"])}

\* A header value that HeaderValue::try_from rejects (a control character).
BadHeaderValue == "bad\n"
ValidHeaderValue(v) == v # BadHeaderValue

\* additional_headers: Option<HashMap<&str, &str>>
AdditionalHeaders ==
    { None,
      Some("WWSVC-REQID" :> "7"),
      Some("WWSVC-TS" :> "caller-date"),
      Some("X-TRACE" :> BadHeaderValue),
      Some(("WWSVC-EXECUTE-MODE" :> "ASYNCHRON") @@ ("WWSVC-ACCEPT-RESULT-TYPE" :> "XML")) }

\* max_lines arguments of create_cursor
CursorMaxLines == {10}

\* Values of the WWSVC-CURSOR response header; None: the header is absent.
CursorReplies == {None, Some("tok1"), Some("CLOSED")}

Functions == {"ARTIKEL.GET"}
Versions == {1}
\* parameters: HashMap<&str, &str>
ParameterMaps == { "ARTNR" :> "4711" }

\* The configuration given to the builder; fixed for the life of a client.
cfg_vendor_hash == "vendor"
cfg_app_hash == "app"
cfg_secret == "secret"
cfg_revision == 1

(***************************************************************************)
(* JSON bodies of the REGISTER reply: objects are functions from field     *)
(* names to values.                                                        *)
(***************************************************************************)
ComResultJson == ("STATUS" :> 200) @@ ("CODE" :> "OK") @@ ("INFO" :> "")
ServicePassJson(p, a) == ("PASSID" :> p) @@ ("APPID" :> a)

RegisterBodies ==
    UNION { { [json_ok |-> FALSE, value |-> <<>>],
              [json_ok |-> TRUE, value |-> ("COMRESULT" :> ComResultJson)],
              [json_ok |-> TRUE,
               value |-> ("COMRESULT" :> ComResultJson)
                         @@ ("SERVICEPASS" :> ("PASSID" :> p))],
              [json_ok |-> TRUE, value |-> ("SERVICEPASS" :> ServicePassJson(p, a))],
              [json_ok |-> TRUE,
               value |-> ("COMRESULT" :> ComResultJson)
                         @@ ("SERVICEPASS" :> ServicePassJson(p, a))] }
            : p \in PassIds, a \in AppIds }

HttpStatuses == {200, 500}

\* What the network gives back for a GET .../REGISTER/...
RegisterReplies ==
    { [transport_ok |-> FALSE, status |-> 0, body |-> [json_ok |-> FALSE, value |-> <<>>]] }
    \cup { [transport_ok |-> TRUE, status |-> s, body |-> b]
           : s \in HttpStatuses, b \in RegisterBodies }

\* What the network gives back for DEREGISTER and EXECJSON.
ExecReplies ==
    { [transport_ok |-> FALSE, status |-> 0, cursor |-> None] }
    \cup { [transport_ok |-> TRUE, status |-> 200, cursor |-> c] : c \in CursorReplies }

(***************************************************************************)
(* The session and what is observed of it.                                 *)
(***************************************************************************)
VARIABLES
    state,               \* type-state of the client.rs session, or "Dropped"
    builder_credentials, \* InternalWebwareClient.credentials
    credentials,         \* WebwareClient.credentials (client.rs)
    app_id,              \* WebwareClient.app_id (async_client.rs)
    service_pass,        \* WebwareClient.service_pass (async_client.rs)
    result_max_lines,
    cursor,
    current_request,
    suspend_cursor,
    now,                 \* the wall clock, in ticks
    call,                \* the call in progress on the session, if any
    wire,                \* the request handed to the network by the call in progress
    net_calls,           \* number of requests handed to the network
    issued,              \* request ids assigned by signing, in order
    carried,             \* the ids carried by the signed requests sent, in order
    last_result,         \* the result of the call that just returned, if any
    built,               \* the header set the step just taken built, if it built one
    paginator,           \* the CursoredResponse over the session, if one was made
    cursor_op,           \* the Cursor function just applied to a cursor on its own
    oneoff,              \* the one-off request of another holder of the session
    hashed,              \* the last two calls of AppHash::new made on their own
    consumed_client,     \* the Registered client a stream function returned
    paginators           \* the CursoredResponses calling next() concurrently

vars == << state, builder_credentials, credentials, app_id, service_pass,
           result_max_lines, cursor, current_request, suspend_cursor, now,
           call, wire, net_calls, issued, carried, last_result, built,
           paginator, cursor_op, oneoff, hashed, consumed_client, paginators >>



(***************************************************************************)
(* Pure functions.                                                         *)
(***************************************************************************)
\* httpdate::fmt_http_date: an IMF-fixdate has a resolution of one second.
fmt_http_date(t) == "date" \o ToString(t \div TicksPerSecond)

\* format!("{:x}", md5::compute(bytes)): a digest, taken to be free of
\* collisions; the ids drawn are ASCII, which WINDOWS_1252.encode maps
\* byte for byte.
Md5Hex(bytes) == "md5(" \o bytes \o ")"

combined_SecretOnly(app_secret, date) == app_secret

\* format!("{}{}", app_secret, now)
combined(app_secret, date) == app_secret \o date

\* A u32 as its two 16-bit halves: the value is hi * U16 + lo.
U16 == 65536

U32Max == [hi |-> U16 - 1, lo |-> U16 - 1]

\* `request_id + 1` on a u32.  At u32::MAX a build with overflow checks
\* panics (None) and a build without them wraps to 0.
u32_add_one(n) ==
    IF n.lo < U16 - 1 THEN {Some([n EXCEPT !.lo = @ + 1])}
    ELSE IF n.hi < U16 - 1 THEN {Some([hi |-> n.hi + 1, lo |-> 0])}
    ELSE {None, Some([hi |-> 0, lo |-> 0])}

AppHash_new_NoIncrement(request_id, app_secret, t) ==
    [request_id |-> request_id,
     hash |-> Md5Hex(combined(app_secret, fmt_http_date(t))),
     date_formatted |-> fmt_http_date(t)]

\* AppHash::new; `t` is the reading of SystemTime::now().  The ids reached
\* stay below MaxRequestId, far from the u32 range's end.
AppHash_new(request_id, app_secret, t) ==
    [request_id |-> request_id + 1,
     hash |-> Md5Hex(combined(app_secret, fmt_http_date(t))),
     date_formatted |-> fmt_http_date(t)]

Cursor_new_Closed(max_lines) == [cursor_id |-> "CLOSED", max_lines |-> max_lines]

Cursor_new(max_lines) == [cursor_id |-> "CREATE", max_lines |-> max_lines]
Cursor_closed_Never(c) == FALSE

Cursor_closed(c) == c.cursor_id = "CLOSED"
Cursor_set_cursor_id_Dropped(c, cursor_id) == c

Cursor_set_cursor_id(c, cursor_id) == [c EXCEPT !.cursor_id = cursor_id]

Extend_KeepingFirst(map, more) == map @@ more

\* HashMap::extend: the entries of `more` replace those of `map`.
Extend(map, more) == more @@ map

signed_entries_WithoutHash(app_hash) ==
    ("WWSVC-REQID" :> ToString(app_hash.request_id))
    @@ ("WWSVC-TS" :> app_hash.date_formatted)

\* get_default_headers: the entries appended when the session holds
\* credentials.
signed_entries(app_hash) ==
    ("WWSVC-REQID" :> ToString(app_hash.request_id))
    @@ ("WWSVC-TS" :> app_hash.date_formatted)
    @@ ("WWSVC-HASH" :> app_hash.hash)

cursor_used_IgnoringSuspend(signed, cur, suspended) ==
    /\ signed
    /\ IsSome(cur)
    /\ ~Cursor_closed(Unwrap(cur))

\* get_default_headers: whether the cursor goes into the headers; the test
\* sits inside the branch of a session with credentials.
cursor_used(signed, cur, suspended) ==
    /\ signed
    /\ ~suspended
    /\ IsSome(cur)
    /\ ~Cursor_closed(Unwrap(cur))

get_default_headers_SignedWithSecret(creds, cur_request, cur, suspended, max_lines_default, additional, t) ==
    LET signed == IsSome(creds)
        app_hash == AppHash_new(cur_request, cfg_secret, t)
        use_cursor == cursor_used(signed, cur, suspended)
        max_lines == IF use_cursor THEN Unwrap(cur).max_lines ELSE max_lines_default
        header_vec ==
            ("WWSVC-EXECUTE-MODE" :> "SYNCHRON")
            @@ ("WWSVC-ACCEPT-RESULT-TYPE" :> "JSON")
            @@ (IF signed THEN signed_entries(app_hash) ELSE <<>>)
            @@ (IF use_cursor
                THEN ("WWSVC-CURSOR" :> Unwrap(cur).cursor_id)
                ELSE <<>>)
            @@ ("WWSVC-ACCEPT-RESULT-MAX-LINES" :> ToString(max_lines))
        headers == IF IsSome(additional)
                   THEN Extend(header_vec, Unwrap(additional))
                   ELSE header_vec
    IN  [current_request |-> IF signed THEN app_hash.request_id ELSE cur_request,
         headers |-> headers,
         ok |-> \A k \in DOMAIN headers : ValidHeaderValue(headers[k])]

\* WebwareClient::get_default_headers (client.rs): the new value of
\* current_request, the merged header map, and whether the conversion to a
\* HeaderMap succeeds.
get_default_headers(creds, cur_request, cur, suspended, max_lines_default, additional, t) ==
    LET signed == IsSome(creds)
        app_hash == AppHash_new(cur_request, Unwrap(creds).app_id, t)
        use_cursor == cursor_used(signed, cur, suspended)
        max_lines == IF use_cursor THEN Unwrap(cur).max_lines ELSE max_lines_default
        header_vec ==
            ("WWSVC-EXECUTE-MODE" :> "SYNCHRON")
            @@ ("WWSVC-ACCEPT-RESULT-TYPE" :> "JSON")
            @@ (IF signed THEN signed_entries(app_hash) ELSE <<>>)
            @@ (IF use_cursor
                THEN ("WWSVC-CURSOR" :> Unwrap(cur).cursor_id)
                ELSE <<>>)
            @@ ("WWSVC-ACCEPT-RESULT-MAX-LINES" :> ToString(max_lines))
        headers == IF IsSome(additional)
                   THEN Extend(header_vec, Unwrap(additional))
                   ELSE header_vec
    IN  [current_request |-> IF signed THEN app_hash.request_id ELSE cur_request,
         headers |-> headers,
         ok |-> \A k \in DOMAIN headers : ValidHeaderValue(headers[k])]

\* get_bin_headers, after its get_default_headers: the result type entry is
\* removed and BIN put in its place.
get_bin_headers(headers) ==
    ("WWSVC-ACCEPT-RESULT-TYPE" :> "BIN")
    @@ [k \in DOMAIN headers \ {"WWSVC-ACCEPT-RESULT-TYPE"} |-> headers[k]]

\* headers.get(name).unwrap_or("")
HeaderOrEmpty(headers, name) == IF name \in DOMAIN headers THEN headers[name] ELSE ""

timestamp_of_WrongHeader(headers) == HeaderOrEmpty(headers, "WWSVC-HASH")

\* request_as_response: the TIMESTAMP of the body is read back from the
\* headers that were built.
timestamp_of(headers) == HeaderOrEmpty(headers, "WWSVC-TS")

app_hash_of(headers) == HeaderOrEmpty(headers, "WWSVC-HASH")

\* The PARAMETER vector: one {PNAME, PCONTENT} map per entry, in the
\* iteration order of the HashMap (any order).
RECURSIVE param_vec(_)
param_vec(parameters) ==
    IF DOMAIN parameters = {}
    THEN <<>>
    ELSE LET k == CHOOSE n \in DOMAIN parameters : TRUE
             rest == [n \in DOMAIN parameters \ {k} |-> parameters[n]]
         IN  << [PNAME |-> k, PCONTENT |-> parameters[k]] >> \o param_vec(rest)

ExecJsonBody_ParametersTwice(function, version, parameters, pass, headers, request_id) ==
    [WWSVC_FUNCTION |-> [FUNCTIONNAME |-> function,
                         PARAMETER |-> param_vec(parameters) \o param_vec(parameters),
                         REVISION |-> version],
     WWSVC_PASSINFO |-> [SERVICEPASS |-> pass,
                         APPHASH |-> app_hash_of(headers),
                         TIMESTAMP |-> timestamp_of(headers),
                         REQUESTID |-> request_id,
                         EXECUTE_MODE |-> "SYNCHRON"]]

\* The json!({...}) body of an EXECJSON request.
ExecJsonBody(function, version, parameters, pass, headers, request_id) ==
    [WWSVC_FUNCTION |-> [FUNCTIONNAME |-> function,
                         PARAMETER |-> param_vec(parameters),
                         REVISION |-> version],
     WWSVC_PASSINFO |-> [SERVICEPASS |-> pass,
                         APPHASH |-> app_hash_of(headers),
                         TIMESTAMP |-> timestamp_of(headers),
                         REQUESTID |-> request_id,
                         EXECUTE_MODE |-> "SYNCHRON"]]

\* response.json::<RegisterResponse>(): COMRESULT (STATUS, CODE, INFO) and
\* SERVICEPASS (PASSID, APPID) are required fields.
ParsesAsRegisterResponse(body) ==
    /\ body.json_ok
    /\ "COMRESULT" \in DOMAIN body.value
    /\ {"STATUS", "CODE", "INFO"} \subseteq DOMAIN body.value["COMRESULT"]
    /\ "SERVICEPASS" \in DOMAIN body.value
    /\ {"PASSID", "APPID"} \subseteq DOMAIN body.value["SERVICEPASS"]

Credentials_new(pass, app) == [service_pass |-> pass, app_id |-> app]

(***************************************************************************)
(* Bookkeeping of calls and results.                                       *)
(***************************************************************************)
Snap(creds, aid, sp, request, cur) ==
    [credentials |-> creds, app_id |-> aid, service_pass |-> sp,
     current_request |-> request, cursor |-> cur]

Before == Snap(credentials, app_id, service_pass, current_request, cursor)

NoReply == None

\* The record of a call that returned: what it was, how it ended, the
\* network calls it made, the reply it saw, the session before and after.
Returned(op, ok, err, net, reply, pre, post) ==
    Some([op |-> op, ok |-> ok, err |-> err, net |-> net,
          reply |-> reply, pre |-> pre, post |-> post])

Ready == {"Registered", "OpenCursor"}

Idle == IsNone(call)

In(op, pc) == IsSome(call) /\ Unwrap(call).op = op /\ Unwrap(call).pc = pc

(***************************************************************************)
(* Construction: From<InternalWebwareClient> for WebwareClient.            *)
(***************************************************************************)
Init ==
    /\ builder_credentials \in BuilderCredentials
    /\ state = "Unregistered"
    /\ credentials = None
    /\ app_id = None
    /\ service_pass = None
    /\ result_max_lines = DefaultResultMaxLines
    /\ cursor = None
    /\ current_request = 0
    /\ suspend_cursor = FALSE
    /\ now = 0
    /\ call = None
    /\ wire = None
    /\ net_calls = 0
    /\ issued = <<>>
    /\ carried = <<>>
    /\ last_result = None
    /\ built = None
    /\ paginator = None
    /\ cursor_op = None
    /\ oneoff = None
    /\ hashed = None
    /\ consumed_client = None
    /\ paginators = None

\* Time passes.
Tick ==
    /\ now < MaxTime
    /\ now' = now + 1
    /\ UNCHANGED << state, builder_credentials, credentials, app_id, service_pass,
                    result_max_lines, cursor, current_request, suspend_cursor,
                    call, wire, net_calls, issued, carried, last_result >>
    /\ UNCHANGED << paginator, cursor_op, oneoff, hashed,
                    consumed_client, paginators >>
    /\ UNCHANGED built


(***************************************************************************)
(* URLs: the path as a sequence of segments, and whether it ends in "/".   *)
(* Url::join resolves a relative reference: on a path that does not end in *)
(* "/" the last segment is replaced.                                       *)
(***************************************************************************)
webware_url == [path |-> << "WWSVC" >>, dir |-> TRUE]

Url_join(url, segment) ==
    [path |-> (IF url.dir THEN url.path ELSE SubSeq(url.path, 1, Len(url.path) - 1))
              \o << segment >>,
     dir |-> FALSE]

RECURSIVE Url_join_all(_, _)
Url_join_all(url, segments) ==
    IF segments = <<>>
    THEN url
    ELSE Url_join_all(Url_join(url, Head(segments)), Tail(segments))

\* A request handed to the network: what goes over the wire, the
\* credentials it was made for, and the clock readings at the construction
\* of its headers and at its send().
Request(endpoint, url, headers, body, about, signed_at) ==
    Some([endpoint |-> endpoint, url |-> url, headers |-> headers, body |-> body,
          credentials |-> about, signed_at |-> signed_at, sent_at |-> now])

\* A call that took the client by value ends with `?`: the client is dropped.
Dropped(c, err, reply) ==
    /\ state' = "Dropped"
    /\ credentials' = None
    /\ cursor' = None
    /\ call' = None
    /\ wire' = None
    /\ last_result' = Returned(c.op, FALSE, err, net_calls - c.net0, reply, c.pre,
                               Snap(None, app_id, service_pass, current_request, None))

(***************************************************************************)
(* client.rs: WebwareClient<Unregistered>::register                        *)
(***************************************************************************)
\* register, up to the await of send(): a GET without headers.
register_send(t) ==
    /\ Idle
    /\ state = "Unregistered"
    /\ net_calls < MaxNetCalls
    /\ call' = Some([op |-> "register", pc |-> "await", task |-> t,
                     pre |-> Before, net0 |-> net_calls])
    /\ wire' = Request("REGISTER",
                       Url_join_all(webware_url,
                                    << "WWSERVICE", "REGISTER", cfg_vendor_hash,
                                       cfg_app_hash, cfg_secret, ToString(cfg_revision) >>),
                       <<>>, None, None, now)
    /\ net_calls' = net_calls + 1
    /\ last_result' = None
    /\ UNCHANGED << state, builder_credentials, credentials, app_id, service_pass,
                    result_max_lines, cursor, current_request, suspend_cursor, now,
                    issued, carried >>
    /\ UNCHANGED << paginator, cursor_op, oneoff, hashed,
                    consumed_client, paginators >>
    /\ built' = None

register_recv_FromZero(reply) ==
    /\ In("register", "await")
    /\ LET c == Unwrap(call)
           sp == reply.body.value["SERVICEPASS"]
           creds == Some(Credentials_new(sp["PASSID"], sp["APPID"]))
       IN  IF reply.transport_ok /\ ParsesAsRegisterResponse(reply.body)
           THEN /\ state' = "Registered"
                /\ credentials' = creds
                /\ call' = None
                /\ wire' = None
                /\ last_result' = Returned("register", TRUE, "", net_calls - c.net0,
                                           Some(reply), c.pre,
                                           Snap(creds, app_id, service_pass,
                                                current_request, cursor))
                /\ UNCHANGED cursor
           ELSE Dropped(c, "ReqwestError", Some(reply))
    /\ current_request' = 0
    /\ UNCHANGED << builder_credentials, app_id, service_pass, result_max_lines,
                    suspend_cursor, now, net_calls, issued, carried >>
    /\ UNCHANGED << paginator, cursor_op, oneoff, hashed,
                    consumed_client, paginators >>
    /\ built' = None

\* register, from the reply on: send() and json::<RegisterResponse>() end the
\* call with `?`; the status of the reply is not looked at.
register_recv(reply) ==
    /\ In("register", "await")
    /\ LET c == Unwrap(call)
           sp == reply.body.value["SERVICEPASS"]
           creds == Some(Credentials_new(sp["PASSID"], sp["APPID"]))
       IN  IF reply.transport_ok /\ ParsesAsRegisterResponse(reply.body)
           THEN /\ state' = "Registered"
                /\ credentials' = creds
                /\ call' = None
                /\ wire' = None
                /\ last_result' = Returned("register", TRUE, "", net_calls - c.net0,
                                           Some(reply), c.pre,
                                           Snap(creds, app_id, service_pass,
                                                current_request, cursor))
                /\ UNCHANGED cursor
           ELSE Dropped(c, "ReqwestError", Some(reply))
    /\ UNCHANGED << builder_credentials, app_id, service_pass, result_max_lines,
                    current_request, suspend_cursor, now, net_calls, issued, carried >>
    /\ UNCHANGED << paginator, cursor_op, oneoff, hashed,
                    consumed_client, paginators >>
    /\ built' = None

(***************************************************************************)
(* client.rs: impl<State: Ready> WebwareClient<State>                      *)
(***************************************************************************)
\* What a step that builds headers leaves to look at: the session as
\* get_default_headers found it, the caller's additional headers, the
\* counter it left, and the header set (with `ok` FALSE no set came back).
Built(bin, creds, additional) ==
    LET h == get_default_headers(creds, current_request, cursor, suspend_cursor,
                                 result_max_lines, additional, now)
    IN  Some([bin |-> bin,
              credentials |-> creds,
              cursor |-> cursor,
              suspend_cursor |-> suspend_cursor,
              result_max_lines |-> result_max_lines,
              additional |-> additional,
              request_before |-> current_request,
              request_after |-> h.current_request,
              ok |-> h.ok,
              headers |-> IF bin THEN get_bin_headers(h.headers) ELSE h.headers])

\* A caller's own call of get_default_headers.
WebwareClient_get_default_headers(additional) ==
    /\ Idle
    /\ state \in Ready
    /\ current_request < MaxRequestId
    /\ LET b == Unwrap(Built(FALSE, credentials, additional))
       IN  /\ built' = Some(b)
           /\ current_request' = b.request_after
           /\ issued' = IF b.request_after # current_request
                        THEN Append(issued, b.request_after)
                        ELSE issued
    /\ last_result' = None
    /\ UNCHANGED << paginator, cursor_op, oneoff, hashed,
                    consumed_client, paginators >>
    /\ UNCHANGED << state, builder_credentials, credentials, app_id, service_pass,
                    result_max_lines, cursor, suspend_cursor, now,
                    call, wire, net_calls, carried >>

\* A caller's own call of get_bin_headers.
WebwareClient_get_bin_headers(additional) ==
    /\ Idle
    /\ state \in Ready
    /\ current_request < MaxRequestId
    /\ LET b == Unwrap(Built(TRUE, credentials, additional))
       IN  /\ built' = Some(b)
           /\ current_request' = b.request_after
           /\ issued' = IF b.request_after # current_request
                        THEN Append(issued, b.request_after)
                        ELSE issued
    /\ last_result' = None
    /\ UNCHANGED << paginator, cursor_op, oneoff, hashed,
                    consumed_client, paginators >>
    /\ UNCHANGED << state, builder_credentials, credentials, app_id, service_pass,
                    result_max_lines, cursor, suspend_cursor, now,
                    call, wire, net_calls, carried >>

create_cursor(max_lines) ==
    /\ Idle
    /\ state \in Ready
    /\ cursor' = Some(Cursor_new(max_lines))
    /\ state' = "OpenCursor"
    /\ last_result' = None
    /\ UNCHANGED << builder_credentials, credentials, app_id, service_pass,
                    result_max_lines, current_request, suspend_cursor, now,
                    call, wire, net_calls, issued, carried >>
    /\ UNCHANGED << paginator, cursor_op, oneoff, hashed,
                    consumed_client, paginators >>
    /\ built' = None

deregister_result_Propagating(reply) ==
    IF reply.transport_ok THEN [ok |-> TRUE, err |-> ""] ELSE [ok |-> FALSE, err |-> "ReqwestError"]

\* `let _ = self.client.get(target_url).headers(headers).send().await;`
deregister_result(reply) == [ok |-> TRUE, err |-> ""]

\* deregister, up to the await of send(): the credentials are taken out of
\* the session before the headers are built.
deregister_send(t) ==
    /\ Idle
    /\ state \in Ready
    /\ LET taken == credentials
           c == [op |-> "deregister", pc |-> "await", task |-> t, pre |-> Before,
                 net0 |-> net_calls, taken |-> taken]
           h == get_default_headers(None, current_request, cursor, suspend_cursor,
                                    result_max_lines, None, now)
       IN  IF IsNone(taken)
           THEN /\ state' = "Unregistered"
                /\ last_result' = Returned("deregister", TRUE, "", 0, NoReply, c.pre, c.pre)
                /\ UNCHANGED << credentials, cursor, current_request, call, wire,
                                net_calls, issued, carried >>
           ELSE IF JoinFails(Unwrap(taken).service_pass)
           THEN /\ Dropped(c, "UrlParseError", NoReply)
                /\ UNCHANGED << current_request, net_calls, issued, carried >>
           ELSE /\ net_calls < MaxNetCalls
                /\ credentials' = None
                /\ current_request' = h.current_request
                /\ issued' = IF h.current_request # current_request
                             THEN Append(issued, h.current_request)
                             ELSE issued
                /\ wire' = Request("DEREGISTER",
                                   Url_join_all(webware_url,
                                                << "WWSERVICE", "DEREGISTER",
                                                   Unwrap(taken).service_pass >>),
                                   h.headers, None, taken, now)
                /\ net_calls' = net_calls + 1
                /\ call' = Some(c)
                /\ last_result' = None
                /\ UNCHANGED << state, cursor, carried >>
    /\ UNCHANGED << builder_credentials, app_id, service_pass, result_max_lines,
                    suspend_cursor, now >>
    /\ UNCHANGED << paginator, cursor_op, oneoff, hashed,
                    consumed_client, paginators >>
    /\ built' = IF IsNone(credentials) \/ JoinFails(Unwrap(credentials).service_pass)
                THEN None
                ELSE Built(FALSE, None, None)

\* deregister, from the reply on.
deregister_recv(reply) ==
    /\ In("deregister", "await")
    /\ LET c == Unwrap(call)
           r == deregister_result(reply)
       IN  /\ last_result' = Returned("deregister", r.ok, r.err, net_calls - c.net0,
                                      Some(reply), c.pre,
                                      Snap(None, app_id, service_pass, current_request,
                                           IF r.ok THEN cursor ELSE None))
           /\ state' = IF r.ok THEN "Unregistered" ELSE "Dropped"
           /\ cursor' = IF r.ok THEN cursor ELSE None
    /\ credentials' = None
    /\ call' = None
    /\ wire' = None
    /\ UNCHANGED << builder_credentials, app_id, service_pass, result_max_lines,
                    current_request, suspend_cursor, now, net_calls, issued, carried >>
    /\ UNCHANGED << paginator, cursor_op, oneoff, hashed,
                    consumed_client, paginators >>
    /\ built' = None


\* request_as_response, the credentials check and the headers.
request_begin(t, function, version, parameters, additional) ==
    /\ Idle
    /\ state \in Ready
    /\ current_request < MaxRequestId
    /\ net_calls < MaxNetCalls
    /\ LET h == get_default_headers(credentials, current_request, cursor, suspend_cursor,
                                    result_max_lines, additional, now)
           c == [op |-> "request_as_response", pc |-> "headers", task |-> t,
                 pre |-> Before, net0 |-> net_calls, function |-> function,
                 version |-> version, parameters |-> parameters,
                 additional |-> additional, headers |-> h.headers, signed_at |-> now]
       IN  IF IsNone(credentials)
           THEN /\ call' = None
                /\ last_result' = Returned(c.op, FALSE, "NotAuthenticated", 0, NoReply,
                                           c.pre, Before)
                /\ UNCHANGED << current_request, issued >>
           ELSE /\ current_request' = h.current_request
                /\ issued' = Append(issued, h.current_request)
                /\ IF h.ok
                   THEN /\ call' = Some(c)
                        /\ last_result' = None
                   ELSE /\ call' = None
                        /\ last_result' =
                               Returned(c.op, FALSE, "InvalidHeaderValue", 0, NoReply, c.pre,
                                        Snap(credentials, app_id, service_pass,
                                             h.current_request, cursor))
    /\ UNCHANGED << state, builder_credentials, credentials, app_id, service_pass,
                    result_max_lines, cursor, suspend_cursor, now, wire, net_calls, carried >>
    /\ UNCHANGED << paginator, cursor_op, oneoff, hashed,
                    consumed_client, paginators >>
    /\ built' = IF IsNone(credentials) THEN None ELSE Built(FALSE, credentials, additional)

\* request_as_response, the body and the send(), up to its await.
request_send ==
    /\ In("request_as_response", "headers")
    /\ LET c == Unwrap(call)
           body == ExecJsonBody(c.function, c.version, c.parameters,
                                Unwrap(credentials).service_pass, c.headers, current_request)
       IN  /\ wire' = Request("EXECJSON", Url_join(webware_url, "EXECJSON"), c.headers,
                              Some(body), credentials, c.signed_at)
           /\ carried' = Append(carried,
                                [task |-> c.task,
                                 signed |-> "WWSVC-REQID" \in DOMAIN c.headers,
                                 header |-> HeaderOrEmpty(c.headers, "WWSVC-REQID"),
                                 body |-> body.WWSVC_PASSINFO.REQUESTID,
                                 overridden |-> /\ IsSome(c.additional)
                                                /\ "WWSVC-REQID" \in DOMAIN Unwrap(c.additional)])
           /\ call' = Some([c EXCEPT !.pc = "await"])
    /\ net_calls' = net_calls + 1
    /\ UNCHANGED << state, builder_credentials, credentials, app_id, service_pass,
                    result_max_lines, cursor, current_request, suspend_cursor, now,
                    issued, last_result >>
    /\ UNCHANGED << paginator, cursor_op, oneoff, hashed,
                    consumed_client, paginators >>
    /\ built' = None

request_recv_LosingTheCursor(reply) ==
    /\ In("request_as_response", "await")
    /\ LET c == Unwrap(call)
           advance == /\ reply.transport_ok
                      /\ ~suspend_cursor
                      /\ IsSome(cursor)
                      /\ ~Cursor_closed(Unwrap(cursor))
                      /\ IsSome(reply.cursor)
           cur == IF advance
                  THEN Some(Cursor_set_cursor_id(Unwrap(cursor), Unwrap(reply.cursor)))
                  ELSE IF reply.transport_ok THEN cursor ELSE None
       IN  /\ cursor' = cur
           /\ last_result' = Returned(c.op, reply.transport_ok,
                                      IF reply.transport_ok THEN "" ELSE "ReqwestError",
                                      net_calls - c.net0, Some(reply), c.pre,
                                      Snap(credentials, app_id, service_pass,
                                           current_request, cur))
    /\ call' = None
    /\ wire' = None
    /\ UNCHANGED << state, builder_credentials, credentials, app_id, service_pass,
                    result_max_lines, current_request, suspend_cursor, now,
                    net_calls, issued, carried >>
    /\ UNCHANGED << paginator, cursor_op, oneoff, hashed,
                    consumed_client, paginators >>
    /\ built' = None

\* request_as_response, from the reply on: `?` on a transport error, else
\* the cursor takes the WWSVC-CURSOR header of the response.
request_recv(reply) ==
    /\ In("request_as_response", "await")
    /\ LET c == Unwrap(call)
           advance == /\ reply.transport_ok
                      /\ ~suspend_cursor
                      /\ IsSome(cursor)
                      /\ ~Cursor_closed(Unwrap(cursor))
                      /\ IsSome(reply.cursor)
           cur == IF advance
                  THEN Some(Cursor_set_cursor_id(Unwrap(cursor), Unwrap(reply.cursor)))
                  ELSE cursor
       IN  /\ cursor' = cur
           /\ last_result' = Returned(c.op, reply.transport_ok,
                                      IF reply.transport_ok THEN "" ELSE "ReqwestError",
                                      net_calls - c.net0, Some(reply), c.pre,
                                      Snap(credentials, app_id, service_pass,
                                           current_request, cur))
    /\ call' = None
    /\ wire' = None
    /\ UNCHANGED << state, builder_credentials, credentials, app_id, service_pass,
                    result_max_lines, current_request, suspend_cursor, now,
                    net_calls, issued, carried >>
    /\ UNCHANGED << paginator, cursor_op, oneoff, hashed,
                    consumed_client, paginators >>
    /\ built' = None

(***************************************************************************)
(* client.rs: impl WebwareClient<OpenCursor>                               *)
(***************************************************************************)
WebwareClient_suspend_cursor ==
    /\ Idle
    /\ state = "OpenCursor"
    /\ suspend_cursor' = TRUE
    /\ last_result' = None
    /\ UNCHANGED << state, builder_credentials, credentials, app_id, service_pass,
                    result_max_lines, cursor, current_request, now,
                    call, wire, net_calls, issued, carried >>
    /\ UNCHANGED << paginator, cursor_op, oneoff, hashed,
                    consumed_client, paginators >>
    /\ built' = None

WebwareClient_resume_cursor ==
    /\ Idle
    /\ state = "OpenCursor"
    /\ suspend_cursor' = FALSE
    /\ last_result' = None
    /\ UNCHANGED << state, builder_credentials, credentials, app_id, service_pass,
                    result_max_lines, cursor, current_request, now,
                    call, wire, net_calls, issued, carried >>
    /\ UNCHANGED << paginator, cursor_op, oneoff, hashed,
                    consumed_client, paginators >>
    /\ built' = None

Next ==
    \/ Tick
    \/ \E t \in Tasks : register_send(t)
    \/ \E reply \in RegisterReplies : register_recv(reply)
    \/ \E max_lines \in CursorMaxLines : create_cursor(max_lines)
    \/ \E t \in Tasks : deregister_send(t)
    \/ \E reply \in ExecReplies : deregister_recv(reply)
    \/ \E t \in Tasks, function \in Functions, version \in Versions,
          parameters \in ParameterMaps, additional \in AdditionalHeaders :
          request_begin(t, function, version, parameters, additional)
    \/ request_send
    \/ \E reply \in ExecReplies : request_recv(reply)
    \/ \E additional \in AdditionalHeaders : WebwareClient_get_default_headers(additional)
    \/ \E additional \in AdditionalHeaders : WebwareClient_get_bin_headers(additional)
    \/ WebwareClient_suspend_cursor
    \/ WebwareClient_resume_cursor

Spec == Init /\ [][Next]_vars


(***************************************************************************)
(* async_client.rs: the client with `app_id` and `service_pass` fields and *)
(* no typestate.  Every method takes `&mut self`.                          *)
(***************************************************************************)
NoTypestate == "WebwareClient"

\* WebwareClient::new
InitAsync ==
    /\ builder_credentials = None
    /\ state = NoTypestate
    /\ credentials = None
    /\ app_id = None
    /\ service_pass = None
    /\ result_max_lines = AsyncResultMaxLines
    /\ cursor = None
    /\ current_request = 0
    /\ suspend_cursor = FALSE
    /\ now = 0
    /\ call = None
    /\ wire = None
    /\ net_calls = 0
    /\ issued = <<>>
    /\ carried = <<>>
    /\ last_result = None
    /\ built = None
    /\ paginator = None
    /\ cursor_op = None
    /\ oneoff = None
    /\ hashed = None
    /\ consumed_client = None
    /\ paginators = None

\* format!("{}{}", self.webware_url, parts.join("/"))
build_url(parts) == [path |-> webware_url.path \o parts, dir |-> FALSE]

\* get_default_headers of async_client.rs: signed when app_id is there.
async_get_default_headers(aid, cur_request, cur, max_lines_default, t) ==
    LET signed == IsSome(aid)
        app_hash == AppHash_new(cur_request, Unwrap(aid), t)
        use_cursor == signed /\ IsSome(cur) /\ ~Cursor_closed(Unwrap(cur))
        max_lines == IF use_cursor THEN Unwrap(cur).max_lines ELSE max_lines_default
    IN  [current_request |-> IF signed THEN app_hash.request_id ELSE cur_request,
         headers |->
            ("WWSVC-EXECUTE-MODE" :> "SYNCHRON")
            @@ ("WWSVC-ACCEPT-RESULT-TYPE" :> "JSON")
            @@ (IF signed
                THEN ("WWSVC-REQID" :> ToString(app_hash.request_id))
                     @@ ("WWSVC-TS" :> app_hash.date_formatted)
                     @@ ("WWSVC-HASH" :> app_hash.hash)
                ELSE <<>>)
            @@ (IF use_cursor
                THEN ("WWSVC-CURSOR" :> Unwrap(cur).cursor_id)
                ELSE <<>>)
            @@ ("WWSVC-ACCEPT-RESULT-MAX-LINES" :> ToString(max_lines))]

\* The credentials the fields of the client amount to.
FieldCredentials(sp, aid) ==
    IF IsSome(sp) /\ IsSome(aid) THEN Some(Credentials_new(Unwrap(sp), Unwrap(aid))) ELSE None

async_create_cursor(max_lines) ==
    /\ Idle
    /\ cursor' = Some(Cursor_new(max_lines))
    /\ last_result' = None
    /\ UNCHANGED << state, builder_credentials, credentials, app_id, service_pass,
                    result_max_lines, current_request, suspend_cursor, now,
                    call, wire, net_calls, issued, carried >>
    /\ UNCHANGED << paginator, cursor_op, oneoff, hashed,
                    consumed_client, paginators >>
    /\ UNCHANGED built

\* register, up to the await of send().
async_register_send(t) ==
    /\ Idle
    /\ net_calls < MaxNetCalls
    /\ call' = Some([op |-> "register", pc |-> "await", task |-> t,
                     pre |-> Before, net0 |-> net_calls, additional |-> None])
    /\ wire' = Request("REGISTER",
                       build_url(<< "WWSERVICE", "REGISTER", cfg_vendor_hash,
                                    cfg_app_hash, cfg_secret, ToString(cfg_revision) >>),
                       <<>>, None, None, now)
    /\ net_calls' = net_calls + 1
    /\ last_result' = None
    /\ UNCHANGED << state, builder_credentials, credentials, app_id, service_pass,
                    result_max_lines, cursor, current_request, suspend_cursor, now,
                    issued, carried >>
    /\ UNCHANGED << paginator, cursor_op, oneoff, hashed,
                    consumed_client, paginators >>
    /\ UNCHANGED built

\* register, from the reply on: `?` on send() and json(), Ok(false) without
\* SERVICEPASS, and the indexing of a missing PASSID or APPID panics, the
\* second after service_pass was assigned.
async_register_recv(reply) ==
    /\ In("register", "await")
    /\ LET c == Unwrap(call)
           parsed == reply.transport_ok /\ reply.body.json_ok
           has_pass == parsed /\ "SERVICEPASS" \in DOMAIN reply.body.value
           sp == reply.body.value["SERVICEPASS"]
           has_passid == has_pass /\ "PASSID" \in DOMAIN sp
           has_appid == has_passid /\ "APPID" \in DOMAIN sp
           new_pass == IF has_passid THEN Some(sp["PASSID"]) ELSE service_pass
           new_app == IF has_appid THEN Some(sp["APPID"]) ELSE app_id
       IN  /\ service_pass' = new_pass
           /\ app_id' = new_app
           /\ last_result' =
                 Returned("register", has_appid,
                          IF ~parsed THEN "ReqwestError"
                          ELSE IF ~has_pass THEN "false"
                          ELSE IF ~has_appid THEN "panic"
                          ELSE "",
                          net_calls - c.net0, Some(reply), c.pre,
                          Snap(None, new_app, new_pass, current_request, cursor))
    /\ call' = None
    /\ wire' = None
    /\ UNCHANGED << state, builder_credentials, credentials, result_max_lines, cursor,
                    current_request, suspend_cursor, now, net_calls, issued, carried >>
    /\ UNCHANGED << paginator, cursor_op, oneoff, hashed,
                    consumed_client, paginators >>
    /\ UNCHANGED built

\* deregister, up to the await of send(): `true` at once without a service
\* pass, else the headers are built from the fields still in place.
async_deregister_send(t) ==
    /\ Idle
    /\ LET c == [op |-> "deregister", pc |-> "await", task |-> t, pre |-> Before,
                 net0 |-> net_calls, additional |-> None]
           h == async_get_default_headers(app_id, current_request, cursor,
                                          result_max_lines, now)
       IN  IF IsNone(service_pass)
           THEN /\ last_result' = Returned("deregister", TRUE, "", 0, NoReply, c.pre, c.pre)
                /\ UNCHANGED << current_request, call, wire, net_calls, issued >>
           ELSE /\ net_calls < MaxNetCalls
                /\ current_request < MaxRequestId
                /\ current_request' = h.current_request
                /\ issued' = IF h.current_request # current_request
                             THEN Append(issued, h.current_request)
                             ELSE issued
                /\ wire' = Request("DEREGISTER",
                                   build_url(<< "WWSERVICE", "DEREGISTER",
                                                Unwrap(service_pass) >>),
                                   h.headers, None,
                                   FieldCredentials(service_pass, app_id), now)
                /\ net_calls' = net_calls + 1
                /\ call' = Some(c)
                /\ last_result' = None
    /\ UNCHANGED << state, builder_credentials, credentials, app_id, service_pass,
                    result_max_lines, cursor, suspend_cursor, now, carried >>
    /\ UNCHANGED << paginator, cursor_op, oneoff, hashed,
                    consumed_client, paginators >>
    /\ UNCHANGED built

\* deregister, from the reply on: the outcome of send() is dropped.
async_deregister_recv(reply) ==
    /\ In("deregister", "await")
    /\ service_pass' = None
    /\ app_id' = None
    /\ last_result' = Returned("deregister", TRUE, "", net_calls - Unwrap(call).net0,
                               Some(reply), Unwrap(call).pre,
                               Snap(None, None, None, current_request, cursor))
    /\ call' = None
    /\ wire' = None
    /\ UNCHANGED << state, builder_credentials, credentials, result_max_lines, cursor,
                    current_request, suspend_cursor, now, net_calls, issued, carried >>
    /\ UNCHANGED << paginator, cursor_op, oneoff, hashed,
                    consumed_client, paginators >>
    /\ UNCHANGED built

\* request_as_response, up to the await of send(): headers, body and send
\* without a look at the credentials.
async_request_send(t, function, version, parameters) ==
    /\ Idle
    /\ current_request < MaxRequestId
    /\ net_calls < MaxNetCalls
    /\ LET h == async_get_default_headers(app_id, current_request, cursor,
                                          result_max_lines, now)
           body == ExecJsonBody(function, version, parameters,
                                IF IsSome(service_pass) THEN Unwrap(service_pass) ELSE "",
                                h.headers, h.current_request)
       IN  /\ current_request' = h.current_request
           /\ issued' = IF h.current_request # current_request
                        THEN Append(issued, h.current_request)
                        ELSE issued
           /\ wire' = Request("EXECJSON", build_url(<< "EXECJSON" >>), h.headers,
                              Some(body), FieldCredentials(service_pass, app_id), now)
           /\ carried' = Append(carried,
                                [task |-> t,
                                 signed |-> "WWSVC-REQID" \in DOMAIN h.headers,
                                 header |-> HeaderOrEmpty(h.headers, "WWSVC-REQID"),
                                 body |-> body.WWSVC_PASSINFO.REQUESTID,
                                 overridden |-> FALSE])
    /\ call' = Some([op |-> "request_as_response", pc |-> "await", task |-> t,
                     pre |-> Before, net0 |-> net_calls, additional |-> None])
    /\ net_calls' = net_calls + 1
    /\ last_result' = None
    /\ UNCHANGED << state, builder_credentials, credentials, app_id, service_pass,
                    result_max_lines, cursor, suspend_cursor, now >>
    /\ UNCHANGED << paginator, cursor_op, oneoff, hashed,
                    consumed_client, paginators >>
    /\ UNCHANGED built

\* request_as_response, from the reply on.
async_request_recv(reply) ==
    /\ In("request_as_response", "await")
    /\ LET c == Unwrap(call)
           advance == /\ reply.transport_ok
                      /\ IsSome(cursor)
                      /\ ~Cursor_closed(Unwrap(cursor))
                      /\ IsSome(reply.cursor)
           cur == IF advance
                  THEN Some(Cursor_set_cursor_id(Unwrap(cursor), Unwrap(reply.cursor)))
                  ELSE cursor
       IN  /\ cursor' = cur
           /\ last_result' = Returned(c.op, reply.transport_ok,
                                      IF reply.transport_ok THEN "" ELSE "ReqwestError",
                                      net_calls - c.net0, Some(reply), c.pre,
                                      Snap(None, app_id, service_pass, current_request, cur))
    /\ call' = None
    /\ wire' = None
    /\ UNCHANGED << state, builder_credentials, credentials, app_id, service_pass,
                    result_max_lines, current_request, suspend_cursor, now,
                    net_calls, issued, carried >>
    /\ UNCHANGED << paginator, cursor_op, oneoff, hashed,
                    consumed_client, paginators >>
    /\ UNCHANGED built

NextAsync ==
    \/ Tick
    \/ \E max_lines \in CursorMaxLines : async_create_cursor(max_lines)
    \/ \E t \in Tasks : async_register_send(t)
    \/ \E reply \in RegisterReplies : async_register_recv(reply)
    \/ \E t \in Tasks : async_deregister_send(t)
    \/ \E reply \in ExecReplies : async_deregister_recv(reply)
    \/ \E t \in Tasks, function \in Functions, version \in Versions,
          parameters \in ParameterMaps :
          async_request_send(t, function, version, parameters)
    \/ \E reply \in ExecReplies : async_request_recv(reply)

SpecAsync == InitAsync /\ [][NextAsync]_vars

(***************************************************************************)
(* cursor.rs on its own: a Cursor made by Cursor::new and given ids by     *)
(* set_cursor_id, with what closed() reports after each.                   *)
(***************************************************************************)
\* max_lines arguments of Cursor::new
PageSizes == {1, 10, 500}

\* cursor_id arguments of set_cursor_id
CursorIds == {"tok1", "tok2", "CLOSED", "closed", "CLOSED ", "", "CREATE"}

InitCursor ==
    /\ builder_credentials = None
    /\ state = "Unregistered"
    /\ credentials = None
    /\ app_id = None
    /\ service_pass = None
    /\ result_max_lines = DefaultResultMaxLines
    /\ cursor = None
    /\ current_request = 0
    /\ suspend_cursor = FALSE
    /\ now = 0
    /\ call = None
    /\ wire = None
    /\ net_calls = 0
    /\ issued = <<>>
    /\ carried = <<>>
    /\ last_result = None
    /\ built = None
    /\ paginator = None
    /\ cursor_op = None
    /\ oneoff = None
    /\ hashed = None
    /\ consumed_client = None
    /\ paginators = None

\* Cursor::new(max_lines), and closed() of the result.
Cursor_new_call(max_lines) ==
    /\ LET c == Cursor_new(max_lines)
       IN  /\ cursor' = Some(c)
           /\ cursor_op' = Some([op |-> "new", cursor_id |-> None, was |-> cursor,
                                 closed |-> Cursor_closed(c)])
    /\ UNCHANGED << state, builder_credentials, credentials, app_id, service_pass,
                    result_max_lines, current_request, suspend_cursor, now,
                    call, wire, net_calls, issued, carried, last_result, built,
                    paginator, oneoff, hashed,
                    consumed_client, paginators >>

\* set_cursor_id(cursor_id) on the cursor held, and closed() of the result.
Cursor_set_cursor_id_call(cursor_id) ==
    /\ IsSome(cursor)
    /\ LET c == Cursor_set_cursor_id(Unwrap(cursor), cursor_id)
       IN  /\ cursor' = Some(c)
           /\ cursor_op' = Some([op |-> "set_cursor_id", cursor_id |-> Some(cursor_id),
                                 was |-> cursor, closed |-> Cursor_closed(c)])
    /\ UNCHANGED << state, builder_credentials, credentials, app_id, service_pass,
                    result_max_lines, current_request, suspend_cursor, now,
                    call, wire, net_calls, issued, carried, last_result, built,
                    paginator, oneoff, hashed,
                    consumed_client, paginators >>

NextCursor ==
    \/ \E max_lines \in PageSizes : Cursor_new_call(max_lines)
    \/ \E cursor_id \in CursorIds : Cursor_set_cursor_id_call(cursor_id)

SpecCursor == InitCursor /\ [][NextCursor]_vars

(***************************************************************************)
(* client.rs: request_generic on a registered session, over functions,     *)
(* revisions and parameter maps of several shapes; requests.rs gives the   *)
(* shape the body is read back into.                                       *)
(***************************************************************************)
GenericFunctions == {"ARTIKEL.GET", "ADRESSE.PUT"}

GenericVersions == {1, 2}

\* parameters: none, one, two with the same content, three.
GenericParameterMaps ==
    { <<>>,
      "ARTNR" :> "4711",
      ("ARTNR" :> "4711") @@ ("FELDER" :> "4711"),
      ("ARTNR" :> "4711") @@ ("FELDER" :> "ART_1_25") @@ ("PNAME" :> "PCONTENT") }

\* What the network gives back: as for EXECJSON, and a response of status
\* 500, which send() returns as a response like any other.
GenericReplies ==
    ExecReplies \cup { [transport_ok |-> TRUE, status |-> 500, cursor |-> None] }

\* The error types the `?` of request_generic converts: that of send() and
\* that of response.json::<T>().
SendFailure == "reqwest::Error"

JsonFailure == "reqwest::Error"

\* The #[from] conversions of WWSVCError.
WWSVCError_from(e) ==
    CASE e = "reqwest::Error" -> "ReqwestError"
      [] e = "reqwest::header::InvalidHeaderValue" -> "InvalidHeaderValue"
      [] e = "url::ParseError" -> "UrlParseError"

\* Deserialize of ExecJsonRequest: every renamed field must be there.
ExecJsonRequest_parse(body) ==
    IF /\ DOMAIN body = {"WWSVC_FUNCTION", "WWSVC_PASSINFO"}
       /\ DOMAIN body.WWSVC_FUNCTION = {"FUNCTIONNAME", "PARAMETER", "REVISION"}
       /\ DOMAIN body.WWSVC_PASSINFO
             = {"SERVICEPASS", "APPHASH", "TIMESTAMP", "REQUESTID", "EXECUTE_MODE"}
       /\ \A i \in DOMAIN body.WWSVC_FUNCTION.PARAMETER :
             DOMAIN body.WWSVC_FUNCTION.PARAMETER[i] = {"PNAME", "PCONTENT"}
    THEN Some([function_name |-> body.WWSVC_FUNCTION.FUNCTIONNAME,
               parameters |-> [i \in DOMAIN body.WWSVC_FUNCTION.PARAMETER |->
                                 [name |-> body.WWSVC_FUNCTION.PARAMETER[i].PNAME,
                                  content |-> body.WWSVC_FUNCTION.PARAMETER[i].PCONTENT]],
               revision |-> body.WWSVC_FUNCTION.REVISION,
               request_id |-> body.WWSVC_PASSINFO.REQUESTID])
    ELSE None

\* request_generic after its request_as_response returned: `?`, then
\* response.json::<T>() and `?` again.
request_generic_json(json_ok) ==
    /\ Idle
    /\ IsSome(last_result)
    /\ Unwrap(last_result).op = "request_as_response"
    /\ LET r == Unwrap(last_result)
       IN  last_result' =
              Returned("request_generic", r.ok /\ json_ok,
                       IF ~r.ok THEN r.err
                       ELSE IF ~json_ok THEN WWSVCError_from(JsonFailure) ELSE "",
                       r.net, r.reply, r.pre, r.post)
    /\ UNCHANGED << state, builder_credentials, credentials, app_id, service_pass,
                    result_max_lines, cursor, current_request, suspend_cursor, now,
                    call, wire, net_calls, issued, carried, built,
                    paginator, cursor_op, oneoff, hashed,
                    consumed_client, paginators >>

NextGeneric ==
    \/ \E function \in GenericFunctions, version \in GenericVersions,
          parameters \in GenericParameterMaps :
          request_begin(1, function, version, parameters, None)
    \/ request_send
    \/ \E reply \in GenericReplies : request_recv(reply)
    \/ \E json_ok \in BOOLEAN : request_generic_json(json_ok)

(***************************************************************************)
(* app_hash.rs on its own: AppHash::new applied to request ids over the    *)
(* whole u32 range, to application secrets and to clock readings.          *)
(***************************************************************************)
\* request_id arguments of AppHash::new
RequestIds ==
    { [hi |-> 0, lo |-> 0], [hi |-> 0, lo |-> 1], [hi |-> 0, lo |-> U16 - 1],
      [hi |-> 1, lo |-> 0], [hi |-> U16 - 1, lo |-> U16 - 2], U32Max }

\* app_secret arguments of AppHash::new
AppSecrets == {"a1", "a2"}

\* Readings of SystemTime::now(), in ticks.
ClockReadings == 0..(2 * TicksPerSecond)

\* AppHash::new(request_id, app_secret) at the clock reading t: the fields
\* of the AppHash made, or None for a panic.  The id is computed at its
\* u32 width.
AppHash_new_call(request_id, app_secret, t) ==
    /\ \E id \in u32_add_one(request_id) :
          LET h == AppHash_new(0, app_secret, t)
              made == IF IsNone(id) THEN None
                      ELSE Some([request_id |-> Unwrap(id), hash |-> h.hash,
                                 date_formatted |-> h.date_formatted])
              this == [request_id |-> request_id, app_secret |-> app_secret, t |-> t,
                       made |-> made]
          IN  hashed' = Some([before |-> IF IsSome(hashed) THEN Some(Unwrap(hashed).last)
                                         ELSE None,
                              last |-> this])
    /\ UNCHANGED << state, builder_credentials, credentials, app_id, service_pass,
                    result_max_lines, cursor, current_request, suspend_cursor, now,
                    call, wire, net_calls, issued, carried, last_result, built,
                    paginator, cursor_op, oneoff, consumed_client, paginators >>

NextAppHash ==
    \E request_id \in RequestIds, app_secret \in AppSecrets, t \in ClockReadings :
       AppHash_new_call(request_id, app_secret, t)

\* No AppHash made yet; the session plays no part.
InitAppHash == InitCursor

SpecAppHash == InitAppHash /\ [][NextAppHash]_vars

(***************************************************************************)
(* cursor_response.rs: CursoredResponse, the paginator over a session held *)
(* as Arc<WebwareClient<Registered>>.  The methods of that session that    *)
(* take &self (has_cursor, create_cursor, cursor_closed, close_cursor,     *)
(* request_generic) are modelled after the description of the session.     *)
(***************************************************************************)
\* page_size arguments of cursored_request
PaginatorPageSizes == {5, 50}

\* Non-empty item lists of a decoded response.
Pages == { << "a" >>, << "b", "c" >> }

\* HasList::into_items of a decoded response; None: the list is absent.
ItemLists == {None, Some(<<>>)} \cup {Some(page) : page \in Pages}

\* What the network gives back for the request of a paginator: no response,
\* a response whose body does not deserialize, or a decoded response.
\* The COMRESULT of a response that deserialized (R: HasComResult).
OkComResult == [status |-> 200, code |-> "OK"]

ComResults == { OkComResult, [status |-> 204, code |-> "NO CONTENT"] }

PageRepliesWith(comresults) ==
    { [transport_ok |-> FALSE, status |-> 0, cursor |-> None, json_ok |-> FALSE,
       items |-> None, comresult |-> None] }
    \cup { [transport_ok |-> TRUE, status |-> 200, cursor |-> c, json_ok |-> FALSE,
            items |-> None, comresult |-> None] : c \in CursorReplies }
    \cup { [transport_ok |-> TRUE, status |-> 200, cursor |-> c, json_ok |-> TRUE,
            items |-> i, comresult |-> Some(cr)]
            : c \in CursorReplies, i \in ItemLists, cr \in comresults }

PageReplies == PageRepliesWith(ComResults)

\* The replies where several holders share the session.
SharedPageReplies == PageRepliesWith({OkComResult})

\* The session has a cursor.
WebwareClient_has_cursor(cur) == IsSome(cur)

\* The session has no cursor that is still open.
WebwareClient_cursor_closed(cur) == IsNone(cur) \/ Cursor_closed(Unwrap(cur))

\* The cursors close_cursor may leave: the session is left without an open
\* cursor, either with none or with the one it had, closed.
WebwareClient_close_cursor(cur) ==
    {None} \cup (IF IsSome(cur) THEN {Some(Cursor_set_cursor_id(Unwrap(cur), "CLOSED"))}
                 ELSE {})

\* request_generic::<R> from the reply on: the cursor follows the
\* WWSVC-CURSOR header of the response, then the body is deserialized.
request_generic_result(reply, cur, suspended) ==
    LET advance == /\ reply.transport_ok
                   /\ ~suspended
                   /\ IsSome(cur)
                   /\ ~Cursor_closed(Unwrap(cur))
                   /\ IsSome(reply.cursor)
    IN  [ok |-> reply.transport_ok /\ reply.json_ok,
         err |-> IF ~reply.transport_ok THEN "ReqwestError"
                 ELSE IF ~reply.json_ok THEN "DeserializeError" ELSE "",
         cursor |-> IF advance
                    THEN Some(Cursor_set_cursor_id(Unwrap(cur), Unwrap(reply.cursor)))
                    ELSE cur]

\* CursoredResponse::new.  `id` tells the paginators of one behaviour apart
\* and `nexts` counts the calls of next() begun on this one.
CursoredResponse_new(page_size, id) ==
    [page_size |-> page_size, finished |-> FALSE, id |-> id, nexts |-> 0]

returns_at_once_Never(p) == FALSE

\* `if self.finished { return Ok(None); }`
returns_at_once(p) == p.finished

needs_cursor_Always(has) == TRUE

\* `if !self.client.has_cursor().await`
needs_cursor(has) == ~has

next_outcome_AbsentOnly(closed, items) ==
    [finished |-> closed \/ IsNone(items),
     close |-> closed \/ IsNone(items),
     data |-> items]

\* next() after its request: whether it sets finished, whether it calls
\* close_cursor, and the Option it returns.
next_outcome(closed, items) ==
    LET empty == IsNone(items) \/ Unwrap(items) = <<>>
    IN  [finished |-> closed \/ empty,
         close |-> closed \/ empty,
         data |-> IF empty THEN None ELSE items]

next_with_comresult_outcome_LikeNext(closed, items, comresult) ==
    LET empty == IsNone(items) \/ Unwrap(items) = <<>>
    IN  [finished |-> closed \/ empty,
         close |-> closed \/ empty,
         data |-> IF empty THEN None
                  ELSE Some([items |-> items, comresult |-> comresult])]

\* next_with_comresult() after its request: as next(), but what is returned
\* is ItemsWithComResult::no_items(comresult) for an empty or missing list
\* and ItemsWithComResult::items(&list, comresult) otherwise.
next_with_comresult_outcome(closed, items, comresult) ==
    LET empty == IsNone(items) \/ Unwrap(items) = <<>>
    IN  [finished |-> closed \/ empty,
         close |-> closed \/ empty,
         data |-> Some([items |-> IF empty THEN None ELSE items,
                        comresult |-> comresult])]

collect_all_extend_Replacing(all_items, batch) == batch

\* `all_items.extend(batch)`
collect_all_extend(all_items, batch) == all_items \o batch

\* The methods of a paginator that fetch.
PaginatorCalls == {"next", "next_with_comresult", "collect_all"}

\* The record of a call of a paginator that returned.
PageResult(c, ok, err, data, reply, post) ==
    Some([op |-> c.op, ok |-> ok, err |-> err, net |-> net_calls - c.net0,
          data |-> data, reply |-> reply, was_finished |-> c.was_finished,
          received |-> c.received, replies |-> c.replies, pre |-> c.pre,
          post |-> post])

\* A registered session, as the paginator is handed one.
InitPaginator ==
    /\ builder_credentials = Some(Credentials_new("p1", "a1"))
    /\ state = "Registered"
    /\ credentials = Some(Credentials_new("p1", "a1"))
    /\ app_id = None
    /\ service_pass = None
    /\ result_max_lines = DefaultResultMaxLines
    /\ cursor = None
    /\ current_request = 0
    /\ suspend_cursor = FALSE
    /\ now = 0
    /\ call = None
    /\ wire = None
    /\ net_calls = 0
    /\ issued = <<>>
    /\ carried = <<>>
    /\ last_result = None
    /\ built = None
    /\ paginator = None
    /\ cursor_op = None
    /\ oneoff = None
    /\ hashed = None
    /\ consumed_client = None
    /\ paginators = None

\* cursored_request / get_cursored on the Arc: CursoredResponse::new.  A
\* paginator made earlier is left behind.
cursored_request(page_size) ==
    /\ Idle
    /\ IsSome(paginator) => Unwrap(paginator).id < MaxPaginators
    /\ paginator' = Some(CursoredResponse_new(page_size,
                             IF IsSome(paginator) THEN Unwrap(paginator).id + 1 ELSE 1))
    /\ last_result' = None
    /\ UNCHANGED << state, builder_credentials, credentials, app_id, service_pass,
                    result_max_lines, cursor, current_request, suspend_cursor, now,
                    call, wire, net_calls, issued, carried, built, cursor_op,
                    oneoff, hashed,
                    consumed_client, paginators >>

\* create_cursor(max_lines) called on the session by its holder.
WebwareClient_create_cursor(max_lines) ==
    /\ Idle
    /\ cursor' = Some(Cursor_new(max_lines))
    /\ last_result' = None
    /\ UNCHANGED << state, builder_credentials, credentials, app_id, service_pass,
                    result_max_lines, current_request, suspend_cursor, now,
                    call, wire, net_calls, issued, carried, built, paginator,
                    cursor_op, oneoff, hashed,
                    consumed_client, paginators >>

\* next() or next_with_comresult(), called by the holder of the paginator,
\* or next() called by the loop of collect_all(), up to the await of its
\* request.
CursoredResponse_next_begin(op) ==
    /\ IsSome(paginator)
    /\ Idle \/ (In("collect_all", "loop") /\ op = "collect_all")
    /\ LET p == Unwrap(paginator)
           c == IF Idle
                THEN [op |-> op, pc |-> "await", net0 |-> net_calls, all_items |-> <<>>,
                      received |-> <<>>, replies |-> <<>>, was_finished |-> p.finished,
                      pre |-> Before]
                ELSE [Unwrap(call) EXCEPT !.pc = "await"]
           cur == IF needs_cursor(WebwareClient_has_cursor(cursor))
                  THEN Some(Cursor_new(p.page_size))
                  ELSE cursor
           h == get_default_headers(credentials, current_request, cur, suspend_cursor,
                                    result_max_lines, None, now)
           body == ExecJsonBody("ARTIKEL.GET", 1, "ARTNR" :> "4711",
                                Unwrap(credentials).service_pass, h.headers,
                                h.current_request)
       IN  /\ paginator' = Some([p EXCEPT !.nexts = IF @ < MaxNetCalls THEN @ + 1 ELSE @])
           /\ IF returns_at_once(p)
              THEN /\ call' = None
                   /\ last_result' = PageResult(c, TRUE, "",
                                                IF c.op = "collect_all"
                                                THEN Some(c.all_items) ELSE None,
                                                NoReply, Before)
                   /\ UNCHANGED << cursor, current_request, issued, wire, net_calls,
                                   carried >>
              ELSE /\ current_request < MaxRequestId
                   /\ net_calls < MaxNetCalls
                   /\ cursor' = cur
                   /\ current_request' = h.current_request
                   /\ issued' = Append(issued, h.current_request)
                   /\ wire' = Request("EXECJSON", Url_join(webware_url, "EXECJSON"),
                                      h.headers, Some(body), credentials, now)
                   /\ net_calls' = net_calls + 1
                   /\ carried' = Append(carried,
                                        [task |-> "paginator",
                                         signed |-> TRUE,
                                         header |-> HeaderOrEmpty(h.headers, "WWSVC-REQID"),
                                         body |-> body.WWSVC_PASSINFO.REQUESTID,
                                         overridden |-> FALSE])
                   /\ call' = Some(c)
                   /\ last_result' = None
    /\ UNCHANGED << state, builder_credentials, credentials, app_id, service_pass,
                    result_max_lines, suspend_cursor, now, built, cursor_op,
                    oneoff, hashed,
                    consumed_client, paginators >>

\* next() from the reply of its request on, and the loop of collect_all()
\* around it.
CursoredResponse_next_recv(reply) ==
    /\ IsSome(call)
    /\ Unwrap(call).op \in PaginatorCalls
    /\ Unwrap(call).pc = "await"
    /\ LET c == [Unwrap(call) EXCEPT !.replies = Append(@, reply)]
           p == Unwrap(paginator)
           r == request_generic_result(reply, cursor, suspend_cursor)
           closed == WebwareClient_cursor_closed(r.cursor)
           out == IF c.op = "next_with_comresult"
                  THEN next_with_comresult_outcome(closed, reply.items, Unwrap(reply.comresult))
                  ELSE next_outcome(closed, reply.items)
       IN  IF ~r.ok
           THEN /\ cursor' = r.cursor
                /\ call' = None
                /\ last_result' = PageResult(c, FALSE, r.err, None, Some(reply),
                                             Snap(credentials, app_id, service_pass,
                                                  current_request, r.cursor))
                /\ UNCHANGED paginator
           ELSE /\ cursor' \in IF out.close THEN WebwareClient_close_cursor(r.cursor)
                                ELSE {r.cursor}
                /\ paginator' = Some([p EXCEPT !.finished = @ \/ out.finished])
                /\ IF c.op = "collect_all" /\ IsSome(out.data)
                   THEN /\ call' = Some([c EXCEPT
                                           !.pc = "loop",
                                           !.all_items = collect_all_extend(@, Unwrap(out.data)),
                                           !.received = Append(@, Unwrap(out.data))])
                        /\ last_result' = None
                   ELSE /\ call' = None
                        /\ last_result' =
                               PageResult(c, TRUE, "",
                                          IF c.op = "collect_all"
                                          THEN Some(c.all_items) ELSE out.data,
                                          Some(reply),
                                          Snap(credentials, app_id, service_pass,
                                               current_request, cursor'))
    /\ wire' = None
    /\ UNCHANGED << state, builder_credentials, credentials, app_id, service_pass,
                    result_max_lines, current_request, suspend_cursor, now,
                    net_calls, issued, carried, built, cursor_op, oneoff, hashed,
                    consumed_client, paginators >>

\* impl CursoredRequests for WebwareClient<Registered>: the client that is
\* not behind an Arc answers with an error and makes no paginator.
WebwareClient_cursored_request(page_size) ==
    /\ Idle
    /\ last_result' = Returned("cursored_request", FALSE, "NotAuthenticated",
                               0, None, Before, Before)
    /\ UNCHANGED << state, builder_credentials, credentials, app_id, service_pass,
                    result_max_lines, cursor, current_request, suspend_cursor, now,
                    call, wire, net_calls, issued, carried, built, paginator,
                    cursor_op, oneoff, hashed,
                    consumed_client, paginators >>

NextPaginator ==
    \/ \E page_size \in PaginatorPageSizes : cursored_request(page_size)
    \/ \E page_size \in PaginatorPageSizes : WebwareClient_cursored_request(page_size)
    \/ \E max_lines \in CursorMaxLines : WebwareClient_create_cursor(max_lines)
    \/ \E op \in PaginatorCalls : CursoredResponse_next_begin(op)
    \/ \E reply \in PageReplies : CursoredResponse_next_recv(reply)

SpecPaginator == InitPaginator /\ [][NextPaginator]_vars

\* request_generic on the registered session the paginator starts from.
SpecGeneric == InitPaginator /\ [][NextGeneric]_vars

(***************************************************************************)
(* The session shared: next to the paginator another holder of the Arc     *)
(* makes one-off requests, each between its own suspend_cursor and         *)
(* resume_cursor.  Every method locks the session state for itself, so the *)
(* steps of the two interleave at every await.                              *)
(***************************************************************************)
\* What the network gives back for a one-off request: no response, or a
\* decoded response, with or without a WWSVC-CURSOR header.
OneOffReplies ==
    { reply \in SharedPageReplies :
         ~reply.transport_ok \/ (reply.json_ok /\ IsNone(reply.items)) }

\* suspend_cursor() of the other holder, before its request.
shared_suspend_cursor ==
    /\ IsNone(oneoff)
    /\ net_calls < MaxNetCalls
    /\ suspend_cursor' = TRUE
    /\ oneoff' = Some([pc |-> "suspended"])
    /\ UNCHANGED << state, builder_credentials, credentials, app_id, service_pass,
                    result_max_lines, cursor, current_request, now,
                    call, wire, net_calls, issued, carried, last_result, built,
                    paginator, cursor_op, hashed,
                    consumed_client, paginators >>

\* The one-off request of the other holder, up to the await of its send.
shared_request_send ==
    /\ IsSome(oneoff)
    /\ Unwrap(oneoff).pc = "suspended"
    /\ current_request < MaxRequestId
    /\ net_calls < MaxNetCalls
    /\ LET h == get_default_headers(credentials, current_request, cursor, suspend_cursor,
                                    result_max_lines, None, now)
       IN  /\ current_request' = h.current_request
           /\ issued' = Append(issued, h.current_request)
           /\ oneoff' = Some([pc |-> "await", headers |-> h.headers])
    /\ net_calls' = net_calls + 1
    /\ UNCHANGED << state, builder_credentials, credentials, app_id, service_pass,
                    result_max_lines, cursor, suspend_cursor, now,
                    call, wire, carried, last_result, built, paginator, cursor_op, hashed,
                    consumed_client, paginators >>

\* The one-off request from its reply on.
shared_request_recv(reply) ==
    /\ IsSome(oneoff)
    /\ Unwrap(oneoff).pc = "await"
    /\ LET r == request_generic_result(reply, cursor, suspend_cursor)
       IN  /\ cursor' = r.cursor
           /\ oneoff' = Some([pc |-> "returned", before |-> cursor, after |-> r.cursor])
    /\ UNCHANGED << state, builder_credentials, credentials, app_id, service_pass,
                    result_max_lines, current_request, suspend_cursor, now,
                    call, wire, net_calls, issued, carried, last_result, built,
                    paginator, cursor_op, hashed,
                    consumed_client, paginators >>

\* resume_cursor() of the other holder, after its request.
shared_resume_cursor ==
    /\ IsSome(oneoff)
    /\ Unwrap(oneoff).pc = "returned"
    /\ suspend_cursor' = FALSE
    /\ oneoff' = None
    /\ UNCHANGED << state, builder_credentials, credentials, app_id, service_pass,
                    result_max_lines, cursor, current_request, now,
                    call, wire, net_calls, issued, carried, last_result, built,
                    paginator, cursor_op, hashed,
                    consumed_client, paginators >>

NextShared ==
    \/ \E page_size \in PaginatorPageSizes : cursored_request(page_size)
    \/ \E op \in PaginatorCalls : CursoredResponse_next_begin(op)
    \/ \E reply \in SharedPageReplies : CursoredResponse_next_recv(reply)
    \/ shared_suspend_cursor
    \/ shared_request_send
    \/ \E reply \in OneOffReplies : shared_request_recv(reply)
    \/ shared_resume_cursor

SpecShared == InitPaginator /\ [][NextShared]_vars

(***************************************************************************)
(* client.rs, feature "stream": request_stream, request_as_response_stream *)
(* and request_generic_stream take the OpenCursor session by value, return *)
(* a Registered client built from clones of its fields, and a stream that  *)
(* owns the session and requests page after page while its cursor is not   *)
(* closed.  The session moved into the stream has the state "Streaming":   *)
(* only the stream calls it.                                               *)
(***************************************************************************)
StreamFunctions ==
    {"request_stream", "request_as_response_stream", "request_generic_stream"}

\* The stream function up to its return: consumed_client, with cursor None
\* and the counter, credentials and suspend flag of the session.
request_stream(kind) ==
    /\ Idle
    /\ state = "OpenCursor"
    /\ IsNone(consumed_client)
    /\ consumed_client' =
          Some([kind |-> kind,
                credentials |-> credentials,
                result_max_lines |-> result_max_lines,
                cursor |-> None,
                current_request |-> current_request,
                suspend_cursor |-> suspend_cursor,
                carried_at |-> Len(carried),
                carried |-> <<>>,
                yielded |-> 0])
    /\ state' = "Streaming"
    /\ last_result' = None
    /\ built' = None
    /\ UNCHANGED << builder_credentials, credentials, app_id, service_pass,
                    result_max_lines, cursor, current_request, suspend_cursor, now,
                    call, wire, net_calls, issued, carried,
                    paginator, cursor_op, oneoff, hashed, paginators >>

\* The stream is polled: `while !self.cursor_closed()`, then the request of
\* the loop body up to its send.
stream_poll ==
    /\ state = "Streaming"
    /\ Idle
    /\ IF IsNone(last_result) THEN TRUE ELSE Unwrap(last_result).op = "yield"
    /\ ~Cursor_closed(Unwrap(cursor))
    /\ current_request < MaxRequestId
    /\ net_calls < MaxNetCalls
    /\ LET h == get_default_headers(credentials, current_request, cursor, suspend_cursor,
                                    result_max_lines, None, now)
           body == ExecJsonBody("ARTIKEL.GET", 1, "ARTNR" :> "4711",
                                Unwrap(credentials).service_pass, h.headers,
                                h.current_request)
       IN  /\ current_request' = h.current_request
           /\ issued' = Append(issued, h.current_request)
           /\ call' = Some([op |-> "request_as_response", pc |-> "await", task |-> 1,
                            pre |-> Before, net0 |-> net_calls,
                            function |-> "ARTIKEL.GET", version |-> 1,
                            parameters |-> "ARTNR" :> "4711", additional |-> None,
                            headers |-> h.headers, signed_at |-> now])
           /\ wire' = Request("EXECJSON", Url_join(webware_url, "EXECJSON"), h.headers,
                              Some(body), credentials, now)
           /\ carried' = Append(carried,
                                [task |-> 1,
                                 signed |-> TRUE,
                                 header |-> HeaderOrEmpty(h.headers, "WWSVC-REQID"),
                                 body |-> body.WWSVC_PASSINFO.REQUESTID,
                                 overridden |-> FALSE])
    /\ net_calls' = net_calls + 1
    /\ last_result' = None
    /\ built' = None
    /\ UNCHANGED << state, builder_credentials, credentials, app_id, service_pass,
                    result_max_lines, cursor, suspend_cursor, now,
                    paginator, cursor_op, oneoff, hashed, consumed_client, paginators >>

\* `yield response`: the result of the request of the loop body, decoded
\* first by request_stream and request_generic_stream.
stream_yield(json_ok) ==
    /\ state = "Streaming"
    /\ Idle
    /\ IsSome(last_result)
    /\ Unwrap(last_result).op = "request_as_response"
    /\ LET r == Unwrap(last_result)
           cc == Unwrap(consumed_client)
           decoded == cc.kind = "request_as_response_stream" \/ json_ok
       IN  /\ last_result' =
                 Returned("yield", r.ok /\ decoded,
                          IF ~r.ok THEN r.err
                          ELSE IF ~decoded THEN WWSVCError_from(JsonFailure) ELSE "",
                          r.net, r.reply, r.pre, r.post)
           /\ consumed_client' = Some([cc EXCEPT !.yielded = @ + 1])
    /\ UNCHANGED << state, builder_credentials, credentials, app_id, service_pass,
                    result_max_lines, cursor, current_request, suspend_cursor, now,
                    call, wire, net_calls, issued, carried, built,
                    paginator, cursor_op, oneoff, hashed, paginators >>

\* A request_as_response on the returned client, from its headers to the
\* response: the client has no cursor, the response changes nothing.
consumed_client_request(reply) ==
    /\ IsSome(consumed_client)
    /\ Unwrap(consumed_client).current_request < MaxRequestId
    /\ net_calls < MaxNetCalls
    /\ LET cc == Unwrap(consumed_client)
           h == get_default_headers(cc.credentials, cc.current_request, cc.cursor,
                                    cc.suspend_cursor, cc.result_max_lines, None, now)
       IN  consumed_client' =
              Some([cc EXCEPT !.current_request = h.current_request,
                              !.carried = Append(@, HeaderOrEmpty(h.headers,
                                                                  "WWSVC-REQID"))])
    /\ net_calls' = net_calls + 1
    /\ UNCHANGED << state, builder_credentials, credentials, app_id, service_pass,
                    result_max_lines, cursor, current_request, suspend_cursor, now,
                    call, wire, issued, carried, last_result, built,
                    paginator, cursor_op, oneoff, hashed, paginators >>

NextStream ==
    \/ \E max_lines \in CursorMaxLines : create_cursor(max_lines)
    \/ WebwareClient_suspend_cursor
    \/ WebwareClient_resume_cursor
    \/ \E function \in Functions, version \in Versions, parameters \in ParameterMaps :
          request_begin(1, function, version, parameters, None)
    \/ request_send
    \/ \E reply \in ExecReplies : request_recv(reply)
    \/ \E kind \in StreamFunctions : request_stream(kind)
    \/ stream_poll
    \/ \E json_ok \in BOOLEAN : stream_yield(json_ok)
    \/ \E reply \in ExecReplies : consumed_client_request(reply)

SpecStream == InitPaginator /\ [][NextStream]_vars

(***************************************************************************)
(* cursor_response.rs: several CursoredResponses made from clones of one   *)
(* Arc, their next() running concurrently.  Each await of next() on the    *)
(* client (has_cursor, create_cursor, the request, cursor_closed and       *)
(* close_cursor) takes the session on its own; between two of them another *)
(* paginator may run.  The steps after the response (cursor_closed,        *)
(* close_cursor, the match on the items) are taken as one.                 *)
(***************************************************************************)
\* cursored_request on a clone of the Arc: one more paginator.
concurrent_cursored_request(page_size) ==
    /\ Len(paginators) < MaxPaginators
    /\ paginators' = Append(paginators,
                            [page_size |-> page_size, finished |-> FALSE, pc |-> "idle",
                             sent |-> None, reply |-> None, returned |-> 0])
    /\ UNCHANGED << state, builder_credentials, credentials, app_id, service_pass,
                    result_max_lines, cursor, current_request, suspend_cursor, now,
                    call, wire, net_calls, issued, carried, last_result, built,
                    paginator, cursor_op, oneoff, hashed, consumed_client >>

\* next() of paginator i up to has_cursor().await: a finished paginator
\* returns at once, the others go on to create_cursor or to the request.
concurrent_next_has_cursor(i) ==
    /\ i \in DOMAIN paginators
    /\ paginators[i].pc = "idle"
    /\ net_calls < MaxNetCalls
    /\ current_request < MaxRequestId
    /\ ~returns_at_once(paginators[i])
    /\ paginators' =
          [paginators EXCEPT ![i].pc =
              IF needs_cursor(WebwareClient_has_cursor(cursor))
              THEN "create_cursor" ELSE "request"]
    /\ UNCHANGED << state, builder_credentials, credentials, app_id, service_pass,
                    result_max_lines, cursor, current_request, suspend_cursor, now,
                    call, wire, net_calls, issued, carried, last_result, built,
                    paginator, cursor_op, oneoff, hashed, consumed_client >>

\* self.client.create_cursor(self.page_size).await
concurrent_create_cursor(i) ==
    /\ i \in DOMAIN paginators
    /\ paginators[i].pc = "create_cursor"
    /\ cursor' = Some(Cursor_new(paginators[i].page_size))
    /\ paginators' = [paginators EXCEPT ![i].pc = "request"]
    /\ UNCHANGED << state, builder_credentials, credentials, app_id, service_pass,
                    result_max_lines, current_request, suspend_cursor, now,
                    call, wire, net_calls, issued, carried, last_result, built,
                    paginator, cursor_op, oneoff, hashed, consumed_client >>

\* request_generic of paginator i up to its send: the headers are built
\* from the session as it is now.
concurrent_request_send(i) ==
    /\ i \in DOMAIN paginators
    /\ paginators[i].pc = "request"
    /\ net_calls < MaxNetCalls
    /\ current_request < MaxRequestId
    /\ LET h == get_default_headers(credentials, current_request, cursor, suspend_cursor,
                                    result_max_lines, None, now)
       IN  /\ current_request' = h.current_request
           /\ issued' = Append(issued, h.current_request)
           /\ paginators' = [paginators EXCEPT ![i].pc = "await",
                                               ![i].sent = Some(h.headers)]
    /\ net_calls' = net_calls + 1
    /\ UNCHANGED << state, builder_credentials, credentials, app_id, service_pass,
                    result_max_lines, cursor, suspend_cursor, now,
                    call, wire, carried, last_result, built,
                    paginator, cursor_op, oneoff, hashed, consumed_client >>

\* request_generic of paginator i from the response on: the cursor of the
\* session follows the response; an error ends next().
concurrent_request_recv(i, reply) ==
    /\ i \in DOMAIN paginators
    /\ paginators[i].pc = "await"
    /\ LET r == request_generic_result(reply, cursor, suspend_cursor)
       IN  /\ cursor' = r.cursor
           /\ paginators' = [paginators EXCEPT ![i].pc = IF r.ok THEN "received" ELSE "idle",
                                               ![i].reply = Some(reply)]
    /\ UNCHANGED << state, builder_credentials, credentials, app_id, service_pass,
                    result_max_lines, current_request, suspend_cursor, now,
                    call, wire, net_calls, issued, carried, last_result, built,
                    paginator, cursor_op, oneoff, hashed, consumed_client >>

\* next() of paginator i after its response: cursor_closed(), finished,
\* close_cursor(), and the items returned.
concurrent_next_return(i) ==
    /\ i \in DOMAIN paginators
    /\ paginators[i].pc = "received"
    /\ LET out == next_outcome(WebwareClient_cursor_closed(cursor),
                               Unwrap(paginators[i].reply).items)
       IN  /\ cursor' \in IF out.close THEN WebwareClient_close_cursor(cursor)
                          ELSE {cursor}
           /\ paginators' = [paginators EXCEPT ![i].pc = "idle",
                                               ![i].finished = out.finished,
                                               ![i].returned = IF @ < MaxNetCalls
                                                               THEN @ + 1 ELSE @]
    /\ UNCHANGED << state, builder_credentials, credentials, app_id, service_pass,
                    result_max_lines, current_request, suspend_cursor, now,
                    call, wire, net_calls, issued, carried, last_result, built,
                    paginator, cursor_op, oneoff, hashed, consumed_client >>

NextConcurrent ==
    \/ \E page_size \in PaginatorPageSizes : concurrent_cursored_request(page_size)
    \/ \E i \in 1..MaxPaginators : concurrent_next_has_cursor(i)
    \/ \E i \in 1..MaxPaginators : concurrent_create_cursor(i)
    \/ \E i \in 1..MaxPaginators : concurrent_request_send(i)
    \/ \E i \in 1..MaxPaginators, reply \in SharedPageReplies :
          concurrent_request_recv(i, reply)
    \/ \E i \in 1..MaxPaginators : concurrent_next_return(i)

SpecConcurrent == InitPaginator /\ [][NextConcurrent]_vars

(***************************************************************************)
(* Properties.                                                             *)
(***************************************************************************)
OnWire(endpoint) == IsSome(wire) /\ Unwrap(wire).endpoint = endpoint

JustReturned(op) == IsSome(last_result) /\ Unwrap(last_result).op = op

\* A snapshot of a session that holds no credentials, in either client.
HoldsNoCredentials(snap) ==
    /\ IsNone(snap.credentials)
    /\ IsNone(snap.app_id)
    /\ IsNone(snap.service_pass)

SignedHeaderNames == {"WWSVC-REQID", "WWSVC-TS", "WWSVC-HASH"}

CallerSupplied(name) ==
    /\ IsSome(call)
    /\ IsSome(Unwrap(call).additional)
    /\ name \in DOMAIN Unwrap(Unwrap(call).additional)

C2_BodyRequestIdEqualsHeader ==
    OnWire("EXECJSON") =>
       LET w == Unwrap(wire)
       IN  w.headers["WWSVC-REQID"] = ToString(Unwrap(w.body).WWSVC_PASSINFO.REQUESTID)

\* C3: in every EXECJSON request sent, the TIMESTAMP of the body is the
\* WWSVC-TS header and the APPHASH of the body is the WWSVC-HASH header; the
\* timestamp is the one produced when the headers were signed, also when
\* the clock has moved on by the time the body is built and sent.
C3_BodyTimestampAndHashAreTheHeaders ==
    OnWire("EXECJSON") =>
       LET w == Unwrap(wire)
           info == Unwrap(w.body).WWSVC_PASSINFO
       IN  /\ info.TIMESTAMP = w.headers["WWSVC-TS"]
           /\ info.APPHASH = w.headers["WWSVC-HASH"]
           /\ ~CallerSupplied("WWSVC-TS") => info.TIMESTAMP = fmt_http_date(w.signed_at)

\* A request whose body was built and sent in a later second than the one
\* its headers were signed in.
C3_Witness ==
    /\ OnWire("EXECJSON")
    /\ ~CallerSupplied("WWSVC-TS")
    /\ fmt_http_date(Unwrap(wire).sent_at) # fmt_http_date(Unwrap(wire).signed_at)

HasServicePass(body) ==
    /\ body.json_ok
    /\ "SERVICEPASS" \in DOMAIN body.value
    /\ {"PASSID", "APPID"} \subseteq DOMAIN body.value["SERVICEPASS"]

\* C6: register() without supplied credentials, answered by a body whose
\* SERVICEPASS holds PASSID and APPID, returns a session with
\* service_pass = PASSID and app_id = APPID.
C6_ServicePassBodyRegisters ==
    ( /\ IsNone(builder_credentials)
      /\ JustReturned("register")
      /\ IsSome(Unwrap(last_result).reply)
      /\ Unwrap(Unwrap(last_result).reply).transport_ok
      /\ HasServicePass(Unwrap(Unwrap(last_result).reply).body) ) =>
       LET r == Unwrap(last_result)
           sp == Unwrap(r.reply).body.value["SERVICEPASS"]
       IN  /\ r.ok
           /\ r.post.credentials = Some(Credentials_new(sp["PASSID"], sp["APPID"]))

RegistrationFails(reply) ==
    \/ ~reply.transport_ok
    \/ reply.status \notin 200..299
    \/ ~HasServicePass(reply.body)

\* C7: a registration that fails (transport error, non-2xx status, a body
\* that is not JSON or lacks SERVICEPASS, PASSID or APPID) returns an error
\* and leaves no credentials behind.
C7_FailedRegistrationIsAnError ==
    ( /\ JustReturned("register")
      /\ IsSome(Unwrap(last_result).reply)
      /\ RegistrationFails(Unwrap(Unwrap(last_result).reply)) ) =>
       LET r == Unwrap(last_result)
       IN  /\ ~r.ok
           /\ HoldsNoCredentials(r.post)

\* C9: deregister() of an authenticated session ends with no credentials in
\* the session, whether the DEREGISTER call succeeded or failed, and never
\* returns the failure of that call.
C9_DeregisterClearsCredentials ==
    ( /\ JustReturned("deregister")
      /\ ~HoldsNoCredentials(Unwrap(last_result).pre) ) =>
       LET r == Unwrap(last_result)
       IN  /\ HoldsNoCredentials(r.post)
           /\ IsNone(credentials) /\ IsNone(app_id) /\ IsNone(service_pass)
           /\ r.err # "ReqwestError"
           /\ IsSome(r.reply) => r.ok

\* deregister() returned after its DEREGISTER call failed in the network.
C9_Witness ==
    /\ JustReturned("deregister")
    /\ ~HoldsNoCredentials(Unwrap(last_result).pre)
    /\ IsSome(Unwrap(last_result).reply)
    /\ ~Unwrap(Unwrap(last_result).reply).transport_ok
    /\ Unwrap(last_result).net = 1

\* C10: the DEREGISTER request carries WWSVC-REQID, WWSVC-TS and WWSVC-HASH,
\* the hash being that of the app_id being deregistered and the WWSVC-TS.
C10_DeregisterRequestIsSigned ==
    OnWire("DEREGISTER") =>
       LET w == Unwrap(wire)
       IN  /\ SignedHeaderNames \subseteq DOMAIN w.headers
           /\ w.headers["WWSVC-HASH"]
                 = Md5Hex(Unwrap(w.credentials).app_id \o w.headers["WWSVC-TS"])

\* C4: a signed request on a session that holds no credentials fails with
\* NotAuthenticated before any network call, and leaves the request counter
\* and the cursor as they were.
C4_UnauthenticatedRequestIsRejected ==
    ( /\ JustReturned("request_as_response")
      /\ HoldsNoCredentials(Unwrap(last_result).pre) ) =>
       LET r == Unwrap(last_result)
       IN  /\ ~r.ok
           /\ r.err = "NotAuthenticated"
           /\ r.net = 0
           /\ r.post.current_request = r.pre.current_request
           /\ r.post.cursor = r.pre.cursor

\* C8: register() on a session that already holds credentials makes no
\* network call and leaves credentials, request counter and cursor as they
\* were.
C8_RegisterOnAuthenticatedSessionIsNoOp ==
    ( /\ JustReturned("register")
      /\ IsSome(FieldCredentials(Unwrap(last_result).pre.service_pass,
                                 Unwrap(last_result).pre.app_id)) ) =>
       LET r == Unwrap(last_result)
       IN  /\ r.net = 0
           /\ r.post = r.pre

StandardHeaderNames ==
    {"WWSVC-EXECUTE-MODE", "WWSVC-ACCEPT-RESULT-TYPE", "WWSVC-ACCEPT-RESULT-MAX-LINES"}

HeadersBuilt == IsSome(built) /\ Unwrap(built).ok

SuppliedTo(b, name) == IsSome(b.additional) /\ name \in DOMAIN Unwrap(b.additional)

\* The counter and the signature headers of a build go with the credentials.
SignedIffCredentials(b) ==
    /\ b.request_after = IF IsSome(b.credentials)
                         THEN b.request_before + 1
                         ELSE b.request_before
    /\ b.ok =>
          /\ StandardHeaderNames \subseteq DOMAIN b.headers
          /\ IF IsSome(b.credentials)
             THEN SignedHeaderNames \subseteq DOMAIN b.headers
             ELSE SignedHeaderNames \cap DOMAIN b.headers = {}

\* C11 as stated: every header set built by get_default_headers contains
\* WWSVC-EXECUTE-MODE=SYNCHRON, WWSVC-ACCEPT-RESULT-TYPE and
\* WWSVC-ACCEPT-RESULT-MAX-LINES, contains WWSVC-REQID, WWSVC-TS and
\* WWSVC-HASH if and only if the session holds credentials, and the request
\* counter goes up by one exactly in that case.
C11_Original ==
    IsSome(built) =>
       LET b == Unwrap(built)
       IN  /\ SignedIffCredentials(b)
           /\ b.ok => b.headers["WWSVC-EXECUTE-MODE"] = "SYNCHRON"

\* C11, amended: the same, with WWSVC-EXECUTE-MODE=SYNCHRON unless the
\* caller's additional headers supply WWSVC-EXECUTE-MODE.
C11_StandardAndSignedHeaders ==
    IsSome(built) =>
       LET b == Unwrap(built)
       IN  /\ SignedIffCredentials(b)
           /\ (b.ok /\ ~SuppliedTo(b, "WWSVC-EXECUTE-MODE"))
                 => b.headers["WWSVC-EXECUTE-MODE"] = "SYNCHRON"

\* A session with credentials built a header set, not its first, with
\* additional headers of the caller in it.
C11_Witness ==
    /\ HeadersBuilt
    /\ IsSome(Unwrap(built).credentials)
    /\ IsSome(Unwrap(built).additional)
    /\ Unwrap(built).request_before > 0

\* The session of a build has a cursor that is not closed, and cursor usage
\* is not suspended.
CursorInUse(b) ==
    /\ IsSome(b.cursor)
    /\ ~Cursor_closed(Unwrap(b.cursor))
    /\ ~b.suspend_cursor

\* C12: a built header set carries WWSVC-CURSOR = the cursor id and
\* WWSVC-ACCEPT-RESULT-MAX-LINES = the page size of the cursor exactly when
\* the session has a cursor that is not closed and cursor usage is not
\* suspended; otherwise it carries no WWSVC-CURSOR and
\* WWSVC-ACCEPT-RESULT-MAX-LINES is the result_max_lines of the session.
C12_CursorHeadersExactlyWhenCursorInUse ==
    HeadersBuilt =>
       LET b == Unwrap(built)
       IN  IF CursorInUse(b)
           THEN /\ "WWSVC-CURSOR" \in DOMAIN b.headers
                /\ b.headers["WWSVC-CURSOR"] = Unwrap(b.cursor).cursor_id
                /\ b.headers["WWSVC-ACCEPT-RESULT-MAX-LINES"]
                      = ToString(Unwrap(b.cursor).max_lines)
           ELSE /\ "WWSVC-CURSOR" \notin DOMAIN b.headers
                /\ b.headers["WWSVC-ACCEPT-RESULT-MAX-LINES"]
                      = ToString(b.result_max_lines)

RequestCursorHeader ==
    OnWire("EXECJSON") =>
       LET w == Unwrap(wire)
           pre == Unwrap(call).pre
       IN  IF ~suspend_cursor /\ IsSome(pre.cursor) /\ ~Cursor_closed(Unwrap(pre.cursor))
           THEN /\ "WWSVC-CURSOR" \in DOMAIN w.headers
                /\ w.headers["WWSVC-CURSOR"] = Unwrap(pre.cursor).cursor_id
           ELSE "WWSVC-CURSOR" \notin DOMAIN w.headers

\* A step taken with cursor usage suspended, the steps of suspend_cursor and
\* resume_cursor included, leaves the cursor as it is, unless it is the
\* caller's create_cursor or the session is dropped.
SuspendedCursorKept ==
    (suspend_cursor \/ suspend_cursor') =>
       \/ cursor' = cursor
       \/ Idle /\ IsSome(cursor') /\ Unwrap(cursor').cursor_id = "CREATE"
       \/ state' = "Dropped"

CursorAdvances(r) ==
    /\ IsSome(r.reply)
    /\ Unwrap(r.reply).transport_ok
    /\ IsSome(Unwrap(r.reply).cursor)
    /\ IsSome(r.pre.cursor)
    /\ ~Cursor_closed(Unwrap(r.pre.cursor))
    /\ ~suspend_cursor

\* C15: after a request the cursor of the session has the id of the
\* WWSVC-CURSOR header of the response (and its page size as before) if the
\* session held an open cursor, not suspended, and the response carried the
\* header; in every other case the request left the cursor as it was.
C15_CursorFollowsTheResponse ==
    JustReturned("request_as_response") =>
       LET r == Unwrap(last_result)
       IN  /\ cursor = r.post.cursor
           /\ IF CursorAdvances(r)
              THEN r.post.cursor
                      = Some([cursor_id |-> Unwrap(Unwrap(r.reply).cursor),
                              max_lines |-> Unwrap(r.pre.cursor).max_lines])
              ELSE r.post.cursor = r.pre.cursor

\* A request returned from a response whose WWSVC-CURSOR moved the open
\* cursor of the session to a new id.
C15_Witness ==
    /\ JustReturned("request_as_response")
    /\ CursorAdvances(Unwrap(last_result))
    /\ Unwrap(Unwrap(last_result).pre.cursor).cursor_id = "CREATE"
    /\ Unwrap(cursor).cursor_id = "tok1"

\* The session holds a cursor whose id is the server's closing value.
HoldsClosedCursor(cur) == IsSome(cur) /\ Unwrap(cur).cursor_id = "CLOSED"

\* The step is the caller's create_cursor: it is taken between calls and
\* leaves a cursor as Cursor::new makes it.
CreateCursorStep ==
    /\ Idle
    /\ Idle'
    /\ state' = "OpenCursor"
    /\ \E max_lines \in CursorMaxLines : cursor' = Some(Cursor_new(max_lines))

\* A request on the wire of a session whose cursor was closed when the call
\* began carries no WWSVC-CURSOR header.
ClosedCursorNotSent ==
    (OnWire("EXECJSON") /\ HoldsClosedCursor(Unwrap(call).pre.cursor))
       => "WWSVC-CURSOR" \notin DOMAIN Unwrap(wire).headers

\* A step from a state with a closed cursor, or with none, either leaves the
\* cursor as it is, is create_cursor, or drops the session.
ClosedCursorStays ==
    (IsNone(cursor) \/ HoldsClosedCursor(cursor)) =>
       \/ cursor' = cursor
       \/ CreateCursorStep
       \/ state' = "Dropped"

C16_ClosedIffIdIsClosed ==
    IsSome(cursor_op) =>
       LET o == Unwrap(cursor_op)
       IN  /\ o.op = "new" => ~o.closed
           /\ o.op = "set_cursor_id" => (o.closed <=> o.cursor_id = Some("CLOSED"))

\* A closed cursor was given another id and is reported open again.
C16_Witness ==
    /\ IsSome(cursor_op)
    /\ Unwrap(cursor_op).op = "set_cursor_id"
    /\ IsSome(Unwrap(cursor_op).was)
    /\ Unwrap(Unwrap(cursor_op).was).cursor_id = "CLOSED"
    /\ Unwrap(cursor_op).cursor_id = Some("closed")
    /\ ~Unwrap(cursor_op).closed

\* A call of next() or collect_all() just returned.
PaginatorReturned ==
    IsSome(last_result) /\ Unwrap(last_result).op \in PaginatorCalls

\* The step is taken by one and the same paginator.
SamePaginator ==
    /\ IsSome(paginator)
    /\ IsSome(paginator')
    /\ Unwrap(paginator').id = Unwrap(paginator).id

\* A call made on a finished paginator returned Ok with no data (None from
\* next() and next_with_comresult(), the empty Vec from collect_all()) and
\* made no network call.
FinishedCallsDoNothing ==
    (PaginatorReturned /\ Unwrap(last_result).was_finished) =>
       LET r == Unwrap(last_result)
       IN  /\ r.ok
           /\ r.net = 0
           /\ IsNone(r.reply)
           /\ r.data = IF r.op = "collect_all" THEN Some(<<>>) ELSE None

\* A step of a finished paginator leaves it finished and hands nothing to
\* the network.
FinishedStays ==
    (SamePaginator /\ Unwrap(paginator).finished) =>
       /\ Unwrap(paginator').finished
       /\ net_calls' = net_calls
       /\ IsNone(wire')

\* C18: once a paginator is finished every further next() and collect_all()
\* on it returns no data and makes no network call, and its finished flag
\* stays set.
C18_FinishedIsTerminal ==
    [](FinishedCallsDoNothing) /\ [][FinishedStays]_vars

\* collect_all() returned from a paginator that an earlier call, which made
\* requests, had finished.
C18_Witness ==
    /\ JustReturned("collect_all")
    /\ Unwrap(last_result).was_finished
    /\ Unwrap(paginator).nexts >= 2
    /\ net_calls >= 2

\* The step makes a paginator: there was none, or it is another one.
ConstructionStep ==
    /\ IsSome(paginator')
    /\ IsSome(paginator) => Unwrap(paginator').id # Unwrap(paginator).id

\* Making a paginator hands nothing to the network and leaves the cursor
\* and the request counter of the session as they are.
ConstructionIsLazy ==
    ConstructionStep =>
       /\ net_calls' = net_calls
       /\ wire' = wire
       /\ cursor' = cursor
       /\ current_request' = current_request
       /\ ~Unwrap(paginator').finished

\* A step of next() that sends its request gives the session a cursor of
\* the paginator's page size if the session has none, which is only so in
\* the first next() of a paginator, and else leaves the cursor it finds.
CursorMadeByFirstNext ==
    (IsSome(paginator) /\ net_calls' = net_calls + 1) =>
       IF IsNone(cursor)
       THEN /\ cursor' = Some(Cursor_new(Unwrap(paginator).page_size))
            /\ Unwrap(paginator).nexts = 0
       ELSE cursor' = cursor

\* A fresh cursor comes from a next() that sends its request, or from the
\* create_cursor of the holder of the session.
FreshCursorOnlyFromNext ==
    (cursor' # cursor /\ IsSome(cursor') /\ Unwrap(cursor').cursor_id = "CREATE") =>
       \/ net_calls' = net_calls + 1
       \/ Idle /\ Idle' /\ paginator' = paginator

\* C19: making a paginator makes no network call and no cursor; the cursor
\* is made by the first next(), and only if the session has none then.
C19_CursorIsCreatedLazily ==
    [][ConstructionIsLazy /\ CursorMadeByFirstNext /\ FreshCursorOnlyFromNext]_vars

\* The first next() of the second paginator of a session found no cursor,
\* made one of its page size and has its request on the wire.
C19_Witness ==
    /\ IsSome(paginator)
    /\ Unwrap(paginator).id = 2
    /\ Unwrap(paginator).nexts = 1
    /\ In("next", "await")
    /\ IsNone(Unwrap(call).pre.cursor)
    /\ cursor = Some(Cursor_new(Unwrap(paginator).page_size))
    /\ OnWire("EXECJSON")
    /\ Unwrap(wire).headers["WWSVC-CURSOR"] = "CREATE"

\* The concatenation of a sequence of pages.
RECURSIVE Flatten(_)
Flatten(pages) ==
    IF pages = <<>> THEN <<>> ELSE Head(pages) \o Flatten(Tail(pages))

\* The call that just returned ended on a decoded response whose item list
\* was absent or empty.
EndedOnEmptyList ==
    /\ PaginatorReturned
    /\ IsSome(Unwrap(last_result).reply)
    /\ Unwrap(Unwrap(last_result).reply).transport_ok
    /\ Unwrap(Unwrap(last_result).reply).json_ok
    /\ Unwrap(Unwrap(last_result).reply).items \in {None, Some(<<>>)}

\* C20: a next() whose response has an absent or empty item list returns
\* Ok(None), leaves the paginator finished and the session without an open
\* cursor; a collect_all() that ends so returns, in order, the items of
\* every page its earlier requests brought.
C20_EmptyListEndsPagination ==
    EndedOnEmptyList =>
       LET r == Unwrap(last_result)
       IN  /\ r.ok
           /\ Unwrap(paginator).finished
           /\ IsNone(cursor) \/ Unwrap(cursor).cursor_id = "CLOSED"
           /\ r.op = "next" => IsNone(r.data)
           /\ r.op = "collect_all" => r.data = Some(Flatten(r.received))

\* collect_all() ended on an empty list, the cursor still open on the
\* server's side, after two pages, and returned the items of both.
C20_Witness ==
    /\ EndedOnEmptyList
    /\ JustReturned("collect_all")
    /\ Unwrap(Unwrap(last_result).reply).items = Some(<<>>)
    /\ Unwrap(Unwrap(last_result).reply).cursor = Some("tok1")
    /\ Unwrap(last_result).received = << << "a" >>, << "b", "c" >> >>
    /\ Unwrap(last_result).data = Some(<< "a", "b", "c" >>)
    /\ Unwrap(paginator).finished

\* A response of a server that has more pages: it parses, brings a
\* non-empty list of p items and the id of a cursor that is still open.
PageReply(reply, p) ==
    /\ reply.transport_ok
    /\ reply.json_ok
    /\ IsSome(reply.items)
    /\ Len(Unwrap(reply.items)) = p
    /\ p > 0
    /\ IsSome(reply.cursor)
    /\ Unwrap(reply.cursor) # "CLOSED"

\* The response by which the server closes the cursor: WWSVC-CURSOR is
\* CLOSED and there are no items.
ClosingReply(reply) ==
    /\ reply.transport_ok
    /\ reply.json_ok
    /\ reply.cursor = Some("CLOSED")
    /\ reply.items \in {None, Some(<<>>)}

\* The responses a call saw are those of a server that serves pages of p
\* items and then closes the cursor, as far as the call went.
ServedPagesOf(replies, p) ==
    /\ replies # <<>>
    /\ \A i \in 1..(Len(replies) - 1) : PageReply(replies[i], p)
    /\ PageReply(replies[Len(replies)], p) \/ ClosingReply(replies[Len(replies)])

\* The page sizes of the responses of the model.
PageLengths == {Len(page) : page \in Pages}

\* A collect_all() returned that began on a paginator not yet finished, on a
\* session whose cursor, if it had one, was not closed.
CollectAllReturned ==
    /\ JustReturned("collect_all")
    /\ ~Unwrap(last_result).was_finished
    /\ ~HoldsClosedCursor(Unwrap(last_result).pre.cursor)

\* C21: against a server that serves N pages of P items and then closes the
\* cursor, collect_all() returns only after the closing response, with the
\* N*P items of the pages in order, after N+1 network calls, and leaves the
\* paginator finished.
C21_CollectAllDrainsTheServer ==
    \A p \in PageLengths :
       (CollectAllReturned /\ ServedPagesOf(Unwrap(last_result).replies, p)) =>
          LET r == Unwrap(last_result)
              n == Len(r.replies) - 1
          IN  /\ ClosingReply(r.replies[n + 1])
              /\ r.ok
              /\ IsSome(r.data)
              /\ Len(Unwrap(r.data)) = n * p
              /\ Unwrap(r.data) = Flatten([i \in 1..n |-> Unwrap(r.replies[i].items)])
              /\ r.net = n + 1
              /\ Unwrap(paginator).finished

\* collect_all() on a fresh session returned after two pages of two items
\* and the closing response: cursor ids tok1, tok1, CLOSED.
C21_Witness ==
    /\ CollectAllReturned
    /\ IsNone(Unwrap(last_result).pre.cursor)
    /\ ServedPagesOf(Unwrap(last_result).replies, 2)
    /\ Len(Unwrap(last_result).replies) = 3
    /\ Len(Unwrap(Unwrap(last_result).data)) = 4
    /\ Unwrap(last_result).net = 3

\* The request on the wire is one a paginator issued.
PaginatorRequestOnWire ==
    /\ OnWire("EXECJSON")
    /\ IsSome(call)
    /\ Unwrap(call).op \in PaginatorCalls
    /\ IsSome(paginator)

\* C22: the first request of every paginator carries WWSVC-CURSOR=CREATE and
\* every request of a paginator carries its page size as
\* WWSVC-ACCEPT-RESULT-MAX-LINES, whatever used the session before.
C22_PaginatorUsesItsOwnCursor ==
    PaginatorRequestOnWire =>
       LET h == Unwrap(wire).headers
           p == Unwrap(paginator)
       IN  /\ h["WWSVC-ACCEPT-RESULT-MAX-LINES"] = ToString(p.page_size)
           /\ p.nexts = 1 => HeaderOrEmpty(h, "WWSVC-CURSOR") = "CREATE"

\* C23: with one-off requests of another holder of the session going on,
\* each between suspend_cursor and resume_cursor, every request of the
\* paginator still carries the open cursor of the session, and the response
\* of a one-off request leaves the cursor as it was.
C23_OneOffRequestsLeavePaginationAlone ==
    /\ (PaginatorRequestOnWire /\ IsSome(cursor) /\ ~Cursor_closed(Unwrap(cursor)))
          => HeaderOrEmpty(Unwrap(wire).headers, "WWSVC-CURSOR") = Unwrap(cursor).cursor_id
    /\ (IsSome(oneoff) /\ Unwrap(oneoff).pc = "returned")
          => Unwrap(oneoff).after = Unwrap(oneoff).before

\* Two calls of AppHash::new were made, and both returned.
TwoHashesMade ==
    /\ IsSome(hashed)
    /\ IsSome(Unwrap(hashed).before)
    /\ IsSome(Unwrap(Unwrap(hashed).before).made)
    /\ IsSome(Unwrap(hashed).last.made)

\* C27: for one and the same app_id, two calls of AppHash::new give the same
\* hash if their timestamps (the date they format, sent as WWSVC-TS) are the
\* same and different hashes if the timestamps differ, whatever the request
\* ids.
C27_HashIsAFunctionOfSecretAndTimestamp ==
    TwoHashesMade =>
       LET a == Unwrap(Unwrap(hashed).before)
           b == Unwrap(hashed).last
       IN  a.app_secret = b.app_secret =>
              (Unwrap(a.made).hash = Unwrap(b.made).hash
                  <=> Unwrap(a.made).date_formatted = Unwrap(b.made).date_formatted)

\* Two calls with the same app_id and different request ids, a second or
\* more apart: the hashes differ.
C27_Witness ==
    /\ TwoHashesMade
    /\ Unwrap(Unwrap(hashed).before).app_secret = Unwrap(hashed).last.app_secret
    /\ Unwrap(Unwrap(hashed).before).request_id # Unwrap(hashed).last.request_id
    /\ Unwrap(Unwrap(Unwrap(hashed).before).made).date_formatted
          # Unwrap(Unwrap(hashed).last.made).date_formatted
    /\ Unwrap(Unwrap(Unwrap(hashed).before).made).hash # Unwrap(Unwrap(hashed).last.made).hash

\* m is the u32 that is n + 1.
IsSuccessor(n, m) ==
    \/ m.hi = n.hi /\ m.lo = n.lo + 1 /\ m.lo < U16
    \/ m.hi = n.hi + 1 /\ m.hi < U16 /\ n.lo = U16 - 1 /\ m.lo = 0

\* C30: for every u32 request id n, the maximum included, AppHash::new(n, _)
\* returns an AppHash whose request_id is n + 1.
C30_SigningAdvancesByOne ==
    IsSome(hashed) =>
       LET c == Unwrap(hashed).last
       IN  /\ IsSome(c.made)
           /\ IsSuccessor(c.request_id, Unwrap(c.made).request_id)

\* request_generic failed on a response that arrived: its body did not
\* deserialize.
ParseFailed ==
    /\ JustReturned("request_generic")
    /\ ~Unwrap(last_result).ok
    /\ IsSome(Unwrap(last_result).reply)
    /\ Unwrap(Unwrap(last_result).reply).transport_ok

\* C24: the error of a response body that does not parse is of another kind
\* than the error of a failed send.
C24_ParseErrorIsItsOwnKind ==
    ParseFailed => Unwrap(last_result).err # WWSVCError_from(SendFailure)

\* The (name, content) pairs of the parameters read back from a body.
ParsedPairs(parsed) ==
    { << parsed.parameters[i].name, parsed.parameters[i].content >>
         : i \in DOMAIN parsed.parameters }

\* C26: the body of a request on the wire, read back as an ExecJsonRequest,
\* has the function name and the revision given, one (PNAME, PCONTENT)
\* entry for each parameter given and no other, and the request id the
\* signing of this request assigned.
C26_BodyRoundTrip ==
    (OnWire("EXECJSON") /\ In("request_as_response", "await")) =>
       LET c == Unwrap(call)
           parsed == ExecJsonRequest_parse(Unwrap(Unwrap(wire).body))
       IN  /\ IsSome(parsed)
           /\ Unwrap(parsed).function_name = c.function
           /\ Unwrap(parsed).revision = c.version
           /\ ParsedPairs(Unwrap(parsed))
                 = { << k, c.parameters[k] >> : k \in DOMAIN c.parameters }
           /\ Len(Unwrap(parsed).parameters) = Cardinality(DOMAIN c.parameters)
           /\ Unwrap(parsed).request_id = c.pre.current_request + 1
           /\ Unwrap(parsed).request_id = issued[Len(issued)]

\* A request with three parameters and revision 2 is on the wire.
C26_Witness ==
    /\ OnWire("EXECJSON")
    /\ In("request_as_response", "await")
    /\ Cardinality(DOMAIN Unwrap(call).parameters) = 3
    /\ Unwrap(call).version = 2
    /\ Len(Unwrap(Unwrap(wire).body).WWSVC_FUNCTION.PARAMETER) = 3
    /\ Unwrap(Unwrap(wire).body).WWSVC_PASSINFO.REQUESTID = 2

\* C25: a call that returned NotAuthenticated was made on a session that
\* held no credentials.
C25_NotAuthenticatedMeansNoCredentials ==
    (IsSome(last_result) /\ Unwrap(last_result).err = "NotAuthenticated")
       => IsNone(Unwrap(last_result).pre.credentials)

\* A request carrying a signature is on the wire.
SignedOnWire == IsSome(wire) /\ "WWSVC-HASH" \in DOMAIN Unwrap(wire).headers

ComResultCallReturned ==
    /\ IsSome(last_result)
    /\ Unwrap(last_result).op = "next_with_comresult"
    /\ Unwrap(last_result).ok

\* C29: next_with_comresult returns nothing exactly when the paginator was
\* finished before the call; otherwise it returns the ComResult of the
\* response it fetched, with the items of a non-empty page and without items
\* for an empty or a missing list.
C29_EveryResponseGivesItsComResult ==
    ComResultCallReturned =>
       LET r == Unwrap(last_result)
       IN  /\ IsNone(r.data) <=> r.was_finished
           /\ r.was_finished => r.net = 0
           /\ ~r.was_finished =>
                 LET reply == Unwrap(r.reply)
                     page == IsSome(reply.items) /\ Unwrap(reply.items) # <<>>
                 IN  /\ r.net = 1
                     /\ Unwrap(r.data).comresult = Unwrap(reply.comresult)
                     /\ Unwrap(r.data).items = IF page THEN reply.items ELSE None

\* next_with_comresult fetched a response without a list whose ComResult
\* is not the usual one, and returned it.
C29_Witness ==
    /\ ComResultCallReturned
    /\ ~Unwrap(last_result).was_finished
    /\ IsNone(Unwrap(Unwrap(last_result).reply).items)
    /\ IsSome(Unwrap(last_result).data)
    /\ Unwrap(Unwrap(last_result).data).comresult # OkComResult
    /\ Unwrap(paginator).finished

\* The headers of the request the session would send next, were it made now
\* without additional headers.
NextRequestHeaders ==
    get_default_headers(credentials, current_request, cursor, suspend_cursor,
                        result_max_lines, None, now).headers

\* C31: right after create_cursor(max_lines) on a session with credentials,
\* the next request carries WWSVC-CURSOR=CREATE and
\* WWSVC-ACCEPT-RESULT-MAX-LINES=max_lines, whatever happened on the session
\* before.
C31_NewCursorIsUsedByTheNextRequest ==
    [][ (CreateCursorStep /\ IsSome(credentials')) =>
           LET h == NextRequestHeaders'
           IN  /\ "WWSVC-CURSOR" \in DOMAIN h
               /\ h["WWSVC-CURSOR"] = "CREATE"
               /\ h["WWSVC-ACCEPT-RESULT-MAX-LINES"]
                     = ToString(Unwrap(cursor').max_lines) ]_vars

\* A step that builds the session anew from the fields of the one it
\* consumes: register, deregister, create_cursor.
RebuildStep == state' # state

\* C32: the request counter starts at 0, and no step decreases it; a step
\* that leaves the session's type-state or enters a new one keeps it.
C32_CounterIsNeverReset ==
    /\ current_request = 0
    /\ [][ /\ current_request' >= current_request
           /\ (RebuildStep /\ state' # "Dropped") => current_request' = current_request
           /\ Len(issued') > Len(issued) =>
                 /\ issued'[Len(issued')] = current_request + 1
                 /\ current_request' = current_request + 1 ]_vars

\* A session that has signed requests and was deregistered has registered
\* again, its counter at the id it signed last.
C32_Witness ==
    /\ JustReturned("register")
    /\ Unwrap(last_result).ok
    /\ state = "Registered"
    /\ Unwrap(last_result).pre.current_request > 0
    /\ current_request = Unwrap(last_result).pre.current_request
    /\ issued # <<>>
    /\ issued[Len(issued)] = current_request

\* C33: a session in the Registered state holds no cursor, and no request
\* of a session in the Registered state carries WWSVC-CURSOR.
C33_RegisteredHoldsNoCursor ==
    state = "Registered" =>
       /\ IsNone(cursor)
       /\ IsSome(wire) => "WWSVC-CURSOR" \notin DOMAIN Unwrap(wire).headers

\* request_as_response returned the error of a failed send.
SendFailed ==
    /\ JustReturned("request_as_response")
    /\ IsSome(Unwrap(last_result).reply)
    /\ ~Unwrap(Unwrap(last_result).reply).transport_ok

\* C36: when the send of a signed request fails, and at the point where a
\* request in flight can be cancelled, the counter is one more than before
\* the call and the cursor is the one held before the call; an id issued
\* later is larger than every id issued before, the failed request's
\* included.
C36_FailedSendKeepsCounterAndCursor ==
    /\ [](SendFailed =>
             /\ ~Unwrap(last_result).ok
             /\ current_request = Unwrap(last_result).pre.current_request + 1
             /\ Unwrap(last_result).post.current_request = current_request
             /\ cursor = Unwrap(last_result).pre.cursor
             /\ Unwrap(last_result).post.cursor = cursor
             /\ issued[Len(issued)] = current_request)
    /\ [](In("request_as_response", "await") =>
             /\ current_request = Unwrap(call).pre.current_request + 1
             /\ cursor = Unwrap(call).pre.cursor
             /\ Unwrap(Unwrap(wire).body).WWSVC_PASSINFO.REQUESTID = current_request)
    /\ [][ Len(issued') > Len(issued) =>
              \A i \in 1..Len(issued) : issued[i] < issued'[Len(issued')] ]_vars

\* The send of the second request of a session failed while the session
\* held a cursor the server had advanced.
C36_Witness ==
    /\ SendFailed
    /\ Unwrap(last_result).pre.current_request = 1
    /\ current_request = 2
    /\ IsSome(cursor)
    /\ ~suspend_cursor
    /\ Unwrap(cursor).cursor_id \notin {"CREATE", "CLOSED"}

\* A call of next() returned an error.
NextFailed ==
    /\ PaginatorReturned
    /\ Unwrap(last_result).op = "next"
    /\ ~Unwrap(last_result).ok

\* The cursor the request of the returned call carried: the one the session
\* held, or the one the call created.
CursorRequested ==
    LET r == Unwrap(last_result)
    IN  IF needs_cursor(WebwareClient_has_cursor(r.pre.cursor))
        THEN Some(Cursor_new(Unwrap(paginator).page_size))
        ELSE r.pre.cursor

\* C37: after next() returned an error the paginator is not finished, the
\* session cursor is not closed, and the cursor is the one the failed
\* request carried, so that the next call fetches the same page.
C37_ErrorsSkipNoPage ==
    NextFailed =>
       /\ ~Unwrap(paginator).finished
       /\ IsSome(cursor)
       /\ ~Cursor_closed(Unwrap(cursor))
       /\ cursor = CursorRequested

\* The WWSVC-REQID values of the requests the stream sent.
StreamRequestIds ==
    { carried[i].header :
         i \in (Unwrap(consumed_client).carried_at + 1)..Len(carried) }

\* The WWSVC-REQID values of the requests sent through the returned client.
ConsumedClientRequestIds ==
    { Unwrap(consumed_client).carried[j] :
         j \in 1..Len(Unwrap(consumed_client).carried) }

\* C34: after the split no request of the returned client and no request of
\* the stream carry the same WWSVC-REQID; both sign with the same
\* credentials.
C34_SplitSessionsShareNoRequestId ==
    IsSome(consumed_client) =>
       /\ Unwrap(consumed_client).credentials = credentials
       /\ StreamRequestIds \cap ConsumedClientRequestIds = {}

\* The response the stream received last carried WWSVC-CURSOR=CLOSED.
ServerClosedTheCursor ==
    /\ state = "Streaming"
    /\ IsSome(last_result)
    /\ IsSome(Unwrap(last_result).reply)
    /\ Unwrap(Unwrap(last_result).reply).transport_ok
    /\ Unwrap(Unwrap(last_result).reply).cursor = Some("CLOSED")

\* C35: once the server has answered a request of the stream with
\* WWSVC-CURSOR=CLOSED the stream sends no further request, whatever the
\* state of the session was when the stream was made, and a stream made on
\* a session with a closed cursor sends none at all.
C35_StreamEndsWhenTheServerCloses ==
    [][ /\ ServerClosedTheCursor => net_calls' = net_calls \/ call' = call
        /\ (state = "Streaming" /\ Cursor_closed(Unwrap(cursor))) => call' = call ]_vars

\* The session cursor has been advanced by a response.
CursorAdvanced ==
    /\ IsSome(cursor)
    /\ Unwrap(cursor).cursor_id \notin {"CREATE", "CLOSED"}

\* The response paginator i received last ends a pagination: it carries
\* WWSVC-CURSOR=CLOSED, or its list is empty or missing.
OwnResponseEnds(i) ==
    /\ IsSome(paginators[i].reply)
    /\ LET reply == Unwrap(paginators[i].reply)
       IN  \/ reply.cursor = Some("CLOSED")
           \/ IsNone(reply.items)
           \/ reply.items = Some(<<>>)

\* C38: with paginators sharing one session, no create_cursor of a
\* paginator replaces a cursor a response has advanced, and a paginator is
\* finished only after a response of its own that ends the pagination.
C38_PaginatorsDoNotDisturbEachOther ==
    /\ [](\A i \in DOMAIN paginators : paginators[i].finished => OwnResponseEnds(i))
    /\ [][ \A i \in DOMAIN paginators :
              (paginators[i].pc = "create_cursor" /\ paginators'[i].pc = "request")
                 => ~CursorAdvanced ]_vars

====
